---- MODULE Spec2Model ----
(***************************************************************************)
(* TokenManager of oauth-connector: the in-memory credential cache, the    *)
(* expiry / grace-period decision, refresh orchestration with fallback to  *)
(* the configured refresh token, and the background-sync timer.            *)
(*                                                                         *)
(* Every `await` of the source is a suspension point.  An awaited storage *)
(* call is modelled in three steps: the synchronous code up to the call    *)
(* (the call is issued, pc = "...Pending"), the storage access taking      *)
(* effect (pc = "...Ready", outcome in io), and the continuation after the *)
(* await.  An awaited token request is two steps: the call is issued       *)
(* (pc = "refreshPending"), and the continuation runs with the server's    *)
(* answer.  Code between two awaits runs atomically (single-threaded event *)
(* loop).  A synchronous method (start, stop, destroy, clearCache,          *)
(* setCachedToken) is one step; what it logged is kept in its invocation   *)
(* record until its caller resumes.  Operations may be started any number  *)
(* of times; the model is bounded by the number of token responses and of  *)
(* clock advances.                                                         *)
(***************************************************************************)
EXTENDS Integers, FiniteSets, Sequences, TLC

\* ---------------------------------------------------------------- bounds
MaxTokens == 1       \* token responses the authorization server gives
MaxClockSteps == 2   \* times the wall clock is observed to advance
MaxEncrypts == 2     \* EncryptionService.encrypt calls made

\* ------------------------------------------------------ program constants
MsPerSec == 1000             \* seconds -> milliseconds
DefaultExpiresIn == 3600     \* lifetime used when the server omits expires_in

\* JavaScript falsy value of an optional field (undefined, 0, "")
Undef == 0
Truthy(x) == x # Undef

\* cachedTokenData / loadToken() result when there is no credential
Null == [isNull |-> TRUE]

\* stored bytes that do not decrypt, or do not parse as JSON
CorruptBlob == [corrupt |-> TRUE]

Callers == {1, 2}            \* concurrent foreground calls on one TokenManager
TickSlots == {3, 4}          \* concurrent runs of the setInterval callback
SyncSlot == 0                \* the synchronous methods (they never overlap)
Procs == Callers \cup TickSlots \cup {SyncSlot}

\* amounts by which Date.now() is seen to advance between two steps
ClockDeltas == {MsPerSec}

\* lifetimes (expires_in, seconds) a provider reports; Undef: it omits the field
ExpiresInChoices == {Undef, 1}

StaticRT == 10               \* config.refreshToken when configured
StoredRT == 11               \* refresh token of a credential persisted earlier
StoredAT == 1                \* access token of a credential persisted earlier
AccessTokenOf(n) == 100 + n  \* access_token of the n-th token response
RotatedRTOf(n) == 200 + n    \* refresh_token of the n-th response, if rotated

VARIABLES
  now,                    \* Date.now()
  clockSteps,             \* clock advances so far
  storageStrategy,        \* TRUE iff a StorageStrategy was passed in
  cfgRefreshToken,        \* oauthService.config.refreshToken (Undef if none)
  graceExpiryTimeSecs,    \* TokenManager.graceExpiryTimeSecs
  backgroundSyncIntervalSecs, \* TokenManager.backgroundSyncIntervalSecs
  cachedTokenData,        \* TokenManager.cachedTokenData
  stored,                 \* what the storage backend currently holds
  backgroundSyncInterval, \* the timer handle held: Null or [due |-> time]
  liveTimers,             \* interval timers set and not cleared in the runtime
  provider,               \* what the authorization server puts in a response
  serial,                 \* token responses produced by the server so far
  call,                   \* per invocation: position and local variables
  handlers,               \* the notification handlers passed to the Connector
  connector,              \* the Connector call under way, and what it fired
  server,                 \* whether the authorization server answers requests
  crypto,                 \* EncryptionService calls made, and their results
  vault                   \* a StorageStrategy, its backend and its latest call

vars == <<now, clockSteps, storageStrategy, cfgRefreshToken,
          graceExpiryTimeSecs, backgroundSyncIntervalSecs, cachedTokenData,
          stored, backgroundSyncInterval, liveTimers, provider, serial,
          call, handlers, connector, server, crypto, vault>>

config == <<storageStrategy, cfgRefreshToken, graceExpiryTimeSecs,
            backgroundSyncIntervalSecs, provider>>

timer == <<backgroundSyncInterval, liveTimers>>

\* what lies outside the TokenManager: its methods never touch it
aside == <<handlers, connector, server, crypto, vault>>

\* the optional constructor argument graceExpiryTimeInSecs
GraceExpiryTimeInSecsChoices ==
  {[given |-> FALSE], [given |-> TRUE, value |-> 0],
   [given |-> TRUE, value |-> 1]}

\* `this.graceExpiryTimeSecs = graceExpiryTimeInSecs || 0`
constructorGrace(graceExpiryTimeInSecs) ==
  IF graceExpiryTimeInSecs.given /\ Truthy(graceExpiryTimeInSecs.value)
  THEN graceExpiryTimeInSecs.value
  ELSE 0

\* ------------------------------------------------------------ TokenData
TokenData(at, rt, exp) ==
  [accessToken |-> at, refreshToken |-> rt, expiresAt |-> exp]

\* isTokenExpired with `>` for `>=`
isTokenExpired_strict(tokenData) ==
  IF ~Truthy(tokenData.expiresAt)
  THEN TRUE
  ELSE LET gracePeriodMs == graceExpiryTimeSecs * MsPerSec
           effectiveExpiryTime == tokenData.expiresAt - gracePeriodMs
       IN now > effectiveExpiryTime

\* TokenManager.isTokenExpired
isTokenExpired(tokenData) ==
  IF ~Truthy(tokenData.expiresAt)
  THEN TRUE
  ELSE LET gracePeriodMs == graceExpiryTimeSecs * MsPerSec
           effectiveExpiryTime == tokenData.expiresAt - gracePeriodMs
       IN now >= effectiveExpiryTime

\* convertToTokenData without the `|| 3600` default
convertToTokenData_noDefault(response) ==
  LET expiresIn == response.expires_in
      expiresAt == now + expiresIn * MsPerSec
  IN TokenData(response.access_token, response.refresh_token, expiresAt)

\* OAuthService.convertToTokenData, evaluated at Date.now() = now
convertToTokenData(response) ==
  LET expiresIn == IF Truthy(response.expires_in)
                   THEN response.expires_in ELSE DefaultExpiresIn
      expiresAt == now + expiresIn * MsPerSec
  IN TokenData(response.access_token, response.refresh_token, expiresAt)

\* refreshAccessToken returning the converted response as it is
refreshAccessToken_noPreserve(refreshToken, response) ==
  convertToTokenData(response)

\* OAuth / GoogleOAuth / ZohoOAuth .refreshAccessToken, after the response:
\* convert it and keep the refresh token used when the server sent none
refreshAccessToken(refreshToken, response) ==
  LET tokenData == convertToTokenData(response)
  IN IF ~Truthy(tokenData.refreshToken)
     THEN [tokenData EXCEPT !.refreshToken = refreshToken]
     ELSE tokenData

\* OAuthService.getRefreshToken
getRefreshToken == cfgRefreshToken

\* the refresh token choice with the operands of `||` swapped
chooseRefreshToken_staticFirst(tokenData) ==
  IF Truthy(getRefreshToken)
  THEN getRefreshToken
  ELSE IF tokenData # Null THEN tokenData.refreshToken ELSE Undef

\* `tokenData?.refreshToken || this.oauthService.getRefreshToken()`
chooseRefreshToken(tokenData) ==
  IF tokenData # Null /\ Truthy(tokenData.refreshToken)
  THEN tokenData.refreshToken
  ELSE getRefreshToken

\* --------------------------------------------------------- invocations
Idle ==
  [pc |-> "idle", op |-> "none", tokenData |-> Null, refreshToken |-> Undef,
   newTokenData |-> Null, io |-> Null, retToken |-> Undef, retData |-> Null,
   error |-> "none", nLoad |-> 0, nRefresh |-> 0, nSave |-> 0,
   refreshedAt |-> Undef, log |-> <<>>]

\* the invocation p becomes r; everything else about the calls is unchanged
Become(p, r) == call' = [call EXCEPT ![p] = r]

\* a fresh invocation of operation o
Begin(o) == [Idle EXCEPT !.op = o]

\* issue an awaited call
IssueLoad(r) == [r EXCEPT !.pc = "loadPending", !.nLoad = @ + 1]
IssueRefresh(r, td, rt) ==
  [r EXCEPT !.pc = "refreshPending", !.tokenData = td, !.refreshToken = rt,
            !.nRefresh = @ + 1]
IssueSave(r, td) ==
  [r EXCEPT !.pc = "savePending", !.newTokenData = td, !.nSave = @ + 1,
            !.refreshedAt = now]

\* the catch block without `this.cachedTokenData = null`
Throw_keepCache(p, r, e) ==
  /\ UNCHANGED cachedTokenData
  /\ Become(p, [r EXCEPT !.pc = "thrown", !.error = e])

\* `catch (error) { this.cachedTokenData = null; ...; throw error; }`
Throw(p, r, e) ==
  /\ cachedTokenData' = Null
  /\ Become(p, [r EXCEPT !.pc = "thrown", !.error = e])

InFlight(p) == call[p].pc \notin {"idle", "returned", "thrown"}

\* an invocation has just settled and its caller has not yet resumed
Settled(p) == call[p].pc \in {"returned", "thrown"}

\* the continuation of a settled promise runs (as a microtask) before the
\* event loop takes up anything else
Running == \A p \in Procs : ~Settled(p)

\* a new invocation takes the lowest slot that has no invocation in flight
FreeSlot(p, slots) ==
  /\ p \in slots
  /\ call[p].pc = "idle"
  /\ \A q \in slots : q < p => call[q].pc # "idle"

\* an operation is started on the manager
StartOp == Running

\* ------------------------------------------------ I/O taking effect
\* the outcomes of StorageStrategy.loadToken: the read fails, or it yields
\* what is stored; bytes that do not decrypt or parse make loadToken throw
\* (value then holds the bytes it could not decode)
LoadOutcomes ==
  {[ok |-> FALSE, value |-> Null],
   [ok |-> stored # CorruptBlob, value |-> stored]}

LoadIO(p) ==
  /\ Running
  /\ call[p].pc = "loadPending"
  /\ \E io \in LoadOutcomes :
       Become(p, [call[p] EXCEPT !.pc = "loadReady", !.io = io])
  /\ UNCHANGED <<now, clockSteps, config, aside, cachedTokenData, stored,
                 timer, serial>>

\* OAuthService.makeTokenRequest: the outcomes of the next token request:
\* the provider's OAuthTokenResponse, or the request fails (the only outcome
\* once the server has given MaxTokens responses)
TokenResponses ==
  (IF serial < MaxTokens
   THEN {[ok |-> TRUE,
          value |-> [access_token |-> AccessTokenOf(serial + 1),
                     refresh_token |-> IF provider.rotates
                                       THEN RotatedRTOf(serial + 1) ELSE Undef,
                     expires_in |-> provider.expires_in]]}
   ELSE {})
  \cup {[ok |-> FALSE, value |-> Null]}

\* StorageStrategy.saveToken: writes the credential, or fails
SaveIO(p) ==
  /\ Running
  /\ call[p].pc = "savePending"
  /\ \/ /\ stored' = call[p].newTokenData
        /\ Become(p, [call[p] EXCEPT !.pc = "saveReady",
                        !.io = [ok |-> TRUE, value |-> Null]])
     \/ /\ stored' = stored
        /\ Become(p, [call[p] EXCEPT !.pc = "saveReady",
                        !.io = [ok |-> FALSE, value |-> Null]])
  /\ UNCHANGED <<now, clockSteps, config, aside, cachedTokenData,
                 timer, serial>>

\* ------------------------------------------- TokenManager.getAccessToken
\* the return without step 4 (`this.cachedTokenData = tokenData`)
GetAccessTokenReturn_noCacheUpdate(p, r, td) ==
  /\ UNCHANGED cachedTokenData
  /\ Become(p, [r EXCEPT !.pc = "returned", !.retToken = td.accessToken])

\* `this.cachedTokenData = tokenData; return tokenData.accessToken;`
GetAccessTokenReturn(p, r, td) ==
  /\ cachedTokenData' = td
  /\ Become(p, [r EXCEPT !.pc = "returned", !.retToken = td.accessToken])

\* step 3 refreshing only when there is no credential at all
GetAccessTokenStep3_servesStale(p, r, td) ==
  IF td = Null
  THEN LET refreshToken == chooseRefreshToken(td)
       IN IF ~Truthy(refreshToken)
          THEN Throw(p, [r EXCEPT !.tokenData = td], "NoRefreshToken")
          ELSE /\ Become(p, IssueRefresh(r, td, refreshToken))
               /\ UNCHANGED cachedTokenData
  ELSE GetAccessTokenReturn(p, [r EXCEPT !.tokenData = td], td)

\* step 3 without `if (!refreshToken) throw ...`
GetAccessTokenStep3_noGuard(p, r, td) ==
  IF td = Null \/ isTokenExpired(td)
  THEN /\ Become(p, IssueRefresh(r, td, chooseRefreshToken(td)))
       /\ UNCHANGED cachedTokenData
  ELSE GetAccessTokenReturn(p, [r EXCEPT !.tokenData = td], td)

\* Step 3 onwards, up to the next await, with tokenData = td
GetAccessTokenStep3(p, r, td) ==
  IF td = Null \/ isTokenExpired(td)
  THEN LET refreshToken == chooseRefreshToken(td)
       IN IF ~Truthy(refreshToken)
          THEN Throw(p, [r EXCEPT !.tokenData = td], "NoRefreshToken")
          ELSE /\ Become(p, IssueRefresh(r, td, refreshToken))
               /\ UNCHANGED cachedTokenData
  ELSE GetAccessTokenReturn(p, [r EXCEPT !.tokenData = td], td)

\* getAccessToken without step 1: storage is consulted on every call
GetAccessToken_noCacheCheck(p) ==
  /\ FreeSlot(p, Callers)
  /\ StartOp
  /\ LET r == Begin("getAccessToken")
     IN IF storageStrategy
        THEN /\ Become(p, IssueLoad(r))
             /\ UNCHANGED cachedTokenData
        ELSE GetAccessTokenStep3(p, r, cachedTokenData)
  /\ UNCHANGED <<now, clockSteps, config, aside, stored, timer,
                 serial>>

\* the call, up to its first await
GetAccessToken(p) ==
  /\ FreeSlot(p, Callers)
  /\ StartOp
  /\ LET r == Begin("getAccessToken")
     IN IF cachedTokenData # Null /\ ~isTokenExpired(cachedTokenData)
        THEN /\ Become(p, [r EXCEPT !.pc = "returned",
                             !.retToken = cachedTokenData.accessToken])
             /\ UNCHANGED cachedTokenData
        ELSE IF storageStrategy
             THEN /\ Become(p, IssueLoad(r))
                  /\ UNCHANGED cachedTokenData
             ELSE GetAccessTokenStep3(p, r, cachedTokenData)
  /\ UNCHANGED <<now, clockSteps, config, aside, stored, timer,
                 serial>>

\* after `await this.storageStrategy.loadToken()`
GetAccessTokenAfterLoad(p) ==
  /\ call[p].op = "getAccessToken"
  /\ Running
  /\ call[p].pc = "loadReady"
  /\ IF call[p].io.ok
     THEN GetAccessTokenStep3(p, call[p], call[p].io.value)
     ELSE Throw(p, call[p], "LoadFailed")
  /\ UNCHANGED <<now, clockSteps, config, aside, stored,
                 timer, serial>>

\* a failed refresh invalidating the persisted credential along with the cache
GetAccessTokenAfterRefresh_dropsStored(p, io) ==
  /\ call[p].op = "getAccessToken"
  /\ Running
  /\ call[p].pc = "refreshPending"
  /\ serial' = IF io.ok THEN serial + 1 ELSE serial
  /\ IF io.ok
     THEN LET td == refreshAccessToken(call[p].refreshToken, io.value)
          IN /\ UNCHANGED stored
             /\ IF storageStrategy
                THEN /\ Become(p, IssueSave(call[p], td))
                     /\ UNCHANGED cachedTokenData
                ELSE GetAccessTokenReturn(p,
                       [call[p] EXCEPT !.newTokenData = td,
                                       !.refreshedAt = now], td)
     ELSE /\ stored' = Null
          /\ Throw(p, call[p], "RefreshFailed")
  /\ UNCHANGED <<now, clockSteps, config, aside, timer>>

\* after `await this.oauthService.refreshAccessToken(refreshToken)`
GetAccessTokenAfterRefresh(p, io) ==
  /\ call[p].op = "getAccessToken"
  /\ Running
  /\ call[p].pc = "refreshPending"
  /\ serial' = IF io.ok THEN serial + 1 ELSE serial
  /\ IF io.ok
     THEN LET td == refreshAccessToken(call[p].refreshToken, io.value)
          IN IF storageStrategy
             THEN /\ Become(p, IssueSave(call[p], td))
                  /\ UNCHANGED cachedTokenData
             ELSE GetAccessTokenReturn(p, [call[p] EXCEPT !.newTokenData = td,
                                                         !.refreshedAt = now],
                                       td)
     ELSE Throw(p, call[p], "RefreshFailed")
  /\ UNCHANGED <<now, clockSteps, config, aside, stored,
                 timer>>

\* after `await this.storageStrategy.saveToken(tokenData)`
GetAccessTokenAfterSave(p) ==
  /\ call[p].op = "getAccessToken"
  /\ Running
  /\ call[p].pc = "saveReady"
  /\ IF call[p].io.ok
     THEN GetAccessTokenReturn(p, call[p], call[p].newTokenData)
     ELSE Throw(p, call[p], "SaveFailed")
  /\ UNCHANGED <<now, clockSteps, config, aside, stored,
                 timer, serial>>

\* --------------------------------------------- TokenManager.refreshToken
\* `this.cachedTokenData = newTokenData; return newTokenData;`
RefreshTokenReturn(p, r, td) ==
  /\ cachedTokenData' = td
  /\ Become(p, [r EXCEPT !.pc = "returned", !.newTokenData = td,
                         !.retData = td])

\* refreshToken skipping the refresh when the credential at hand is fresh
RefreshTokenStep_skipIfFresh(p, r, td) ==
  IF td # Null /\ ~isTokenExpired(td)
  THEN RefreshTokenReturn(p, [r EXCEPT !.tokenData = td], td)
  ELSE LET refreshToken == chooseRefreshToken(td)
       IN IF ~Truthy(refreshToken)
          THEN Throw(p, [r EXCEPT !.tokenData = td], "NoRefreshToken")
          ELSE /\ Become(p, IssueRefresh(r, td, refreshToken))
               /\ UNCHANGED cachedTokenData

\* from the choice of the refresh token up to the next await
RefreshTokenStep(p, r, td) ==
  LET refreshToken == chooseRefreshToken(td)
  IN IF ~Truthy(refreshToken)
     THEN Throw(p, [r EXCEPT !.tokenData = td], "NoRefreshToken")
     ELSE /\ Become(p, IssueRefresh(r, td, refreshToken))
          /\ UNCHANGED cachedTokenData

\* the call, up to its first await
RefreshToken(p) ==
  /\ FreeSlot(p, Callers)
  /\ StartOp
  /\ LET r == Begin("refreshToken")
     IN IF storageStrategy
        THEN /\ Become(p, IssueLoad(r))
             /\ UNCHANGED cachedTokenData
        ELSE RefreshTokenStep(p, r, cachedTokenData)
  /\ UNCHANGED <<now, clockSteps, config, aside, stored, timer,
                 serial>>

RefreshTokenAfterLoad(p) ==
  /\ call[p].op = "refreshToken"
  /\ Running
  /\ call[p].pc = "loadReady"
  /\ IF call[p].io.ok
     THEN RefreshTokenStep(p, call[p], call[p].io.value)
     ELSE Throw(p, call[p], "LoadFailed")
  /\ UNCHANGED <<now, clockSteps, config, aside, stored,
                 timer, serial>>

RefreshTokenAfterRefresh(p, io) ==
  /\ call[p].op = "refreshToken"
  /\ Running
  /\ call[p].pc = "refreshPending"
  /\ serial' = IF io.ok THEN serial + 1 ELSE serial
  /\ IF io.ok
     THEN LET td == refreshAccessToken(call[p].refreshToken, io.value)
          IN IF storageStrategy
             THEN /\ Become(p, IssueSave(call[p], td))
                  /\ UNCHANGED cachedTokenData
             ELSE RefreshTokenReturn(p, [call[p] EXCEPT !.refreshedAt = now],
                                     td)
     ELSE Throw(p, call[p], "RefreshFailed")
  /\ UNCHANGED <<now, clockSteps, config, aside, stored,
                 timer>>

\* the continuation after saveToken caching the credential whether or not
\* the save went through
RefreshTokenAfterSave_cachesUnsaved(p) ==
  /\ call[p].op = "refreshToken"
  /\ Running
  /\ call[p].pc = "saveReady"
  /\ RefreshTokenReturn(p, call[p], call[p].newTokenData)
  /\ UNCHANGED <<now, clockSteps, config, aside, stored,
                 timer, serial>>

RefreshTokenAfterSave(p) ==
  /\ call[p].op = "refreshToken"
  /\ Running
  /\ call[p].pc = "saveReady"
  /\ IF call[p].io.ok
     THEN RefreshTokenReturn(p, call[p], call[p].newTokenData)
     ELSE Throw(p, call[p], "SaveFailed")
  /\ UNCHANGED <<now, clockSteps, config, aside, stored,
                 timer, serial>>

\* ------------------------------------ the setInterval callback (a tick)
\* the callback's catch block throwing the error on
TickCatch_rethrow(p, r, e) ==
  /\ cachedTokenData' = Null
  /\ Become(p, [r EXCEPT !.pc = "thrown", !.error = e])

\* `catch (error) { this.cachedTokenData = null; this.logger.error(...) }`
TickCatch(p, r, e) ==
  /\ cachedTokenData' = Null
  /\ Become(p, [r EXCEPT !.pc = "returned", !.error = e])

\* the callback treating an absent credential as getAccessToken does: as one
\* to be refreshed with the configured refresh token
TickStep_refreshesWhenAbsent(p, r, td) ==
  /\ UNCHANGED cachedTokenData
  /\ IF td = Null \/ isTokenExpired(td)
     THEN LET refreshToken == chooseRefreshToken(td)
          IN IF Truthy(refreshToken)
             THEN Become(p, IssueRefresh(r, td, refreshToken))
             ELSE Become(p, [r EXCEPT !.pc = "returned", !.tokenData = td])
     ELSE Become(p, [r EXCEPT !.pc = "returned", !.tokenData = td])

\* from `if (tokenData && this.isTokenExpired(tokenData))` to the next await
TickStep(p, r, td) ==
  /\ UNCHANGED cachedTokenData
  /\ IF td # Null /\ isTokenExpired(td)
     THEN LET refreshToken == chooseRefreshToken(td)
          IN IF Truthy(refreshToken)
             THEN Become(p, IssueRefresh(r, td, refreshToken))
             ELSE Become(p, [r EXCEPT !.pc = "returned", !.tokenData = td])
     ELSE Become(p, [r EXCEPT !.pc = "returned", !.tokenData = td])

\* the callback reading storage on every tick, whatever the cache holds
TimerFire_alwaysLoads(p) ==
  /\ FreeSlot(p, TickSlots)
  /\ backgroundSyncInterval # Null
  /\ now >= backgroundSyncInterval.due
  /\ StartOp
  /\ backgroundSyncInterval' =
       [due |-> now + backgroundSyncIntervalSecs * MsPerSec]
  /\ UNCHANGED liveTimers
  /\ LET r == Begin("tick")
     IN IF storageStrategy
        THEN /\ Become(p, IssueLoad(r))
             /\ UNCHANGED cachedTokenData
        ELSE TickStep(p, r, cachedTokenData)
  /\ UNCHANGED <<now, clockSteps, config, aside, stored, serial>>

\* the timer fires: the callback runs up to its first await
TimerFire(p) ==
  /\ FreeSlot(p, TickSlots)
  /\ backgroundSyncInterval # Null
  /\ now >= backgroundSyncInterval.due
  /\ StartOp
  /\ backgroundSyncInterval' =
       [due |-> now + backgroundSyncIntervalSecs * MsPerSec]
  /\ UNCHANGED liveTimers
  /\ LET r == Begin("tick")
     IN IF cachedTokenData = Null /\ storageStrategy
        THEN /\ Become(p, IssueLoad(r))
             /\ UNCHANGED cachedTokenData
        ELSE TickStep(p, r, cachedTokenData)
  /\ UNCHANGED <<now, clockSteps, config, aside, stored, serial>>

TickAfterLoad(p) ==
  /\ call[p].op = "tick"
  /\ Running
  /\ call[p].pc = "loadReady"
  /\ IF call[p].io.ok
     THEN TickStep(p, call[p], call[p].io.value)
     ELSE TickCatch(p, call[p], "LoadFailed")
  /\ UNCHANGED <<now, clockSteps, config, aside, stored,
                 timer, serial>>

TickAfterRefresh(p, io) ==
  /\ call[p].op = "tick"
  /\ Running
  /\ call[p].pc = "refreshPending"
  /\ serial' = IF io.ok THEN serial + 1 ELSE serial
  /\ IF io.ok
     THEN LET td == refreshAccessToken(call[p].refreshToken, io.value)
          IN IF storageStrategy
             THEN /\ Become(p, IssueSave(call[p], td))
                  /\ UNCHANGED cachedTokenData
             ELSE /\ cachedTokenData' = td
                  /\ Become(p, [call[p] EXCEPT !.pc = "returned",
                                               !.newTokenData = td,
                                               !.refreshedAt = now])
     ELSE TickCatch(p, call[p], "RefreshFailed")
  /\ UNCHANGED <<now, clockSteps, config, aside, stored,
                 timer>>

TickAfterSave(p) ==
  /\ call[p].op = "tick"
  /\ Running
  /\ call[p].pc = "saveReady"
  /\ IF call[p].io.ok
     THEN /\ cachedTokenData' = call[p].newTokenData
          /\ Become(p, [call[p] EXCEPT !.pc = "returned"])
     ELSE TickCatch(p, call[p], "SaveFailed")
  /\ UNCHANGED <<now, clockSteps, config, aside, stored,
                 timer, serial>>

\* ------------------------------------- start / stop / destroy / cache
\* a synchronous method has run to its end, having logged the messages log
Finish(o, log) ==
  /\ FreeSlot(SyncSlot, {SyncSlot})
  /\ StartOp
  /\ Become(SyncSlot, [Begin(o) EXCEPT !.pc = "returned", !.log = log])

\* startBackgroundSync without the `already running` early return
StartBackgroundSync_noGuard ==
  /\ IF ~Truthy(backgroundSyncIntervalSecs)
     THEN /\ UNCHANGED timer
          /\ Finish("startBackgroundSync", <<"not configured">>)
     ELSE /\ backgroundSyncInterval' =
               [due |-> now + backgroundSyncIntervalSecs * MsPerSec]
          /\ liveTimers' = liveTimers + 1
          /\ Finish("startBackgroundSync", <<"starting">>)
  /\ UNCHANGED <<now, clockSteps, config, aside, cachedTokenData, stored, serial>>

StartBackgroundSync ==
  /\ IF backgroundSyncInterval # Null
     THEN /\ UNCHANGED timer
          /\ Finish("startBackgroundSync", <<"already running">>)
     ELSE IF ~Truthy(backgroundSyncIntervalSecs)
          THEN /\ UNCHANGED timer
               /\ Finish("startBackgroundSync", <<"not configured">>)
          ELSE /\ backgroundSyncInterval' =
                    [due |-> now + backgroundSyncIntervalSecs * MsPerSec]
               /\ liveTimers' = liveTimers + 1
               /\ Finish("startBackgroundSync", <<"starting">>)
  /\ UNCHANGED <<now, clockSteps, config, aside, cachedTokenData, stored, serial>>

\* clearInterval without `if (this.backgroundSyncInterval)`, counting a
\* cancellation whether or not a timer is held
ClearTimer_unguarded ==
  /\ liveTimers' = liveTimers - 1
  /\ backgroundSyncInterval' = Null

\* the body of stopBackgroundSync: its effect on the timer, and what it logs
ClearTimer ==
  IF backgroundSyncInterval # Null
  THEN /\ liveTimers' = liveTimers - 1
       /\ backgroundSyncInterval' = Null
  ELSE UNCHANGED timer

StopLog == IF backgroundSyncInterval # Null THEN <<"stopped">> ELSE <<>>

StopBackgroundSync ==
  /\ ClearTimer
  /\ Finish("stopBackgroundSync", StopLog)
  /\ UNCHANGED <<now, clockSteps, config, aside, cachedTokenData, stored, serial>>

ClearCache ==
  /\ cachedTokenData' = Null
  /\ Finish("clearCache", <<"cache cleared">>)
  /\ UNCHANGED <<now, clockSteps, config, aside, stored, timer, serial>>

\* destroy without `this.clearCache()`
Destroy_keepCache ==
  /\ ClearTimer
  /\ UNCHANGED cachedTokenData
  /\ Finish("destroy", StopLog)
  /\ UNCHANGED <<now, clockSteps, config, aside, stored, serial>>

\* `this.stopBackgroundSync(); this.clearCache();`
Destroy ==
  /\ ClearTimer
  /\ cachedTokenData' = Null
  /\ Finish("destroy", StopLog \o <<"cache cleared">>)
  /\ UNCHANGED <<now, clockSteps, config, aside, stored, serial>>

\* credentials handed to setCachedToken (the result of a code exchange)
ExchangedTokens ==
  { TokenData(StoredAT, rt, now + exp * MsPerSec) :
      rt \in {Undef, StoredRT}, exp \in {1} }

SetCachedToken(tokenData) ==
  /\ cachedTokenData' = tokenData
  /\ Finish("setCachedToken", <<"cached">>)
  /\ UNCHANGED <<now, clockSteps, config, aside, stored, timer, serial>>

\* ------------------------------------------ TokenManager.getTokenData
\* getTokenData going to storage although a credential is cached
GetTokenData_skipCache(p) ==
  /\ FreeSlot(p, Callers)
  /\ StartOp
  /\ LET r == Begin("getTokenData")
     IN IF storageStrategy
        THEN Become(p, IssueLoad(r))
        ELSE Become(p, [r EXCEPT !.pc = "returned",
                                 !.retData = cachedTokenData])
  /\ UNCHANGED <<now, clockSteps, config, aside, cachedTokenData, stored,
                 timer, serial>>

GetTokenData(p) ==
  /\ FreeSlot(p, Callers)
  /\ StartOp
  /\ LET r == Begin("getTokenData")
     IN IF cachedTokenData # Null
        THEN Become(p, [r EXCEPT !.pc = "returned",
                                 !.retData = cachedTokenData])
        ELSE IF storageStrategy
             THEN Become(p, IssueLoad(r))
             ELSE Become(p, [r EXCEPT !.pc = "returned"])
  /\ UNCHANGED <<now, clockSteps, config, aside, cachedTokenData, stored,
                 timer, serial>>

GetTokenDataAfterLoad(p) ==
  /\ call[p].op = "getTokenData"
  /\ Running
  /\ call[p].pc = "loadReady"
  /\ IF call[p].io.ok
     THEN LET tokenData == call[p].io.value
          IN /\ cachedTokenData' =
                  IF tokenData # Null THEN tokenData ELSE cachedTokenData
             /\ Become(p, [call[p] EXCEPT !.pc = "returned",
                             !.tokenData = tokenData, !.retData = tokenData])
     ELSE /\ UNCHANGED cachedTokenData
          /\ Become(p, [call[p] EXCEPT !.pc = "thrown",
                                       !.error = "LoadFailed"])
  /\ UNCHANGED <<now, clockSteps, config, aside, stored,
                 timer, serial>>

\* ---------------------------------------------- Connector.deleteToken
\* the call, up to `await this.authStrategy.deleteToken()`
DeleteToken(p) ==
  /\ FreeSlot(p, Callers)
  /\ StartOp
  /\ storageStrategy
  /\ Become(p, [Begin("deleteToken") EXCEPT !.pc = "deletePending"])
  /\ UNCHANGED <<now, clockSteps, config, aside, cachedTokenData, stored,
                 timer, serial>>

\* StorageStrategy.deleteToken: removes what is stored, or fails
DeleteIO(p) ==
  /\ Running
  /\ call[p].pc = "deletePending"
  /\ \/ /\ stored' = Null
        /\ Become(p, [call[p] EXCEPT !.pc = "deleteReady",
                        !.io = [ok |-> TRUE, value |-> Null]])
     \/ /\ stored' = stored
        /\ Become(p, [call[p] EXCEPT !.pc = "deleteReady",
                        !.io = [ok |-> FALSE, value |-> Null]])
  /\ UNCHANGED <<now, clockSteps, config, aside, cachedTokenData, timer, serial>>

\* after the await: `this.logger.debug('Token deleted')`, or log and rethrow
DeleteTokenAfterDelete(p) ==
  /\ call[p].op = "deleteToken"
  /\ Running
  /\ call[p].pc = "deleteReady"
  /\ IF call[p].io.ok
     THEN Become(p, [call[p] EXCEPT !.pc = "returned",
                                    !.log = <<"token deleted">>])
     ELSE Become(p, [call[p] EXCEPT !.pc = "thrown",
                                    !.error = "DeleteFailed"])
  /\ UNCHANGED <<now, clockSteps, config, aside, cachedTokenData, stored,
                 timer, serial>>

\* ------------------------------------------------------- environment
\* the caller resumes with the result or the error (for a tick: the callback
\* has ended); the invocation is over
Return(p) ==
  /\ Settled(p)
  /\ Become(p, Idle)
  /\ UNCHANGED <<now, clockSteps, config, aside, cachedTokenData, stored,
                 timer, serial>>

\* time passes
Advance(d) ==
  /\ Running
  /\ clockSteps < MaxClockSteps
  /\ clockSteps' = clockSteps + 1
  /\ now' = now + d
  /\ UNCHANGED <<config, aside, cachedTokenData, stored,
                 timer, serial, call>>

\* `setInterval(..., intervalMs)`: the callback comes due every interval for
\* as long as the timer is held, also after the last advance of the clock
\* that is observed (Date.now() is then read as it was last seen)
IntervalElapses ==
  /\ Running
  /\ clockSteps = MaxClockSteps
  /\ backgroundSyncInterval # Null
  /\ now < backgroundSyncInterval.due
  /\ backgroundSyncInterval' = [due |-> now]
  /\ UNCHANGED <<now, clockSteps, config, aside, cachedTokenData, stored,
                 liveTimers, serial, call>>

\* ------------------------------------------------------------- Connector
\* Connector.getAccessToken and Connector.refreshToken wrap the TokenManager
\* operation in notifications.  The TokenManager operation of the Connector
\* call under way runs in slot ConnectorSlot; the Connector resumes when it
\* has settled.  A handler is user code: it returns or it throws.
Notifications == {"onFetchingAccessToken", "onTokenRefreshed", "onTokenError"}

HandlerOutcomes == {"returns", "throws"}

\* `timeUntilExpiry > 25 * 60 * 1000`
JustRefreshedMs == 25 * 60 * MsPerSec

ConnectorSlot == 1

\* obtained: what the TokenManager operation gave; refreshes: the calls of
\* refreshAccessToken it made; err: the error caught; result: what the
\* Connector call gave its caller
ConnectorIdle ==
  [pc |-> "idle", op |-> "none", fired |-> <<>>, obtained |-> Null,
   refreshes |-> 0, err |-> "none", result |-> Null]

\* `if (this.handler) { await this.handler(...) }`
Notify(c, n) == IF n \in handlers THEN [c EXCEPT !.fired = Append(@, n)] ELSE c

HandlerThrows(n, h) == n \in handlers /\ h = "throws"

\* control reaches the catch block with the error e
ConnectorCaught(c, e) == [c EXCEPT !.pc = "catch", !.err = e]

\* the call, up to `await this.tokenManager.<o>()`
ConnectorEnter(o, h) ==
  /\ connector.pc = "idle"
  /\ Running
  /\ call[ConnectorSlot].pc = "idle"
  /\ LET c == Notify([ConnectorIdle EXCEPT !.op = o], "onFetchingAccessToken")
     IN connector' =
          IF HandlerThrows("onFetchingAccessToken", h)
          THEN ConnectorCaught(c, "onFetchingAccessToken")
          ELSE [c EXCEPT !.pc = "tokenManager"]
  /\ UNCHANGED <<now, clockSteps, config, cachedTokenData, stored, timer,
                 serial, call, handlers, server, crypto, vault>>

ConnectorGetAccessToken(h) == ConnectorEnter("getAccessToken", h)

ConnectorRefreshToken(h) == ConnectorEnter("refreshToken", h)

\* the Connector call is at its TokenManager call o
ConnectorAt(pc, o) == connector.pc = pc /\ connector.op = o

\* `this.tokenManager.getAccessToken()` is called
ConnectorCallsGetAccessToken ==
  /\ ConnectorAt("tokenManager", "getAccessToken")
  /\ GetAccessToken(ConnectorSlot)

\* `this.tokenManager.refreshToken()` is called
ConnectorCallsRefreshToken ==
  /\ ConnectorAt("tokenManager", "refreshToken")
  /\ RefreshToken(ConnectorSlot)

\* `this.tokenManager.getTokenData()` is called
ConnectorCallsGetTokenData ==
  /\ ConnectorAt("getTokenData", "getAccessToken")
  /\ GetTokenData(ConnectorSlot)

\* the TokenManager operation o has settled and the Connector resumes
ConnectorResumes(pc, o) ==
  /\ connector.pc = pc
  /\ Settled(ConnectorSlot)
  /\ call[ConnectorSlot].op = o
  /\ Become(ConnectorSlot, Idle)
  /\ UNCHANGED <<now, clockSteps, config, cachedTokenData, stored, timer,
                 serial, handlers, server, crypto, vault>>

\* after `const token = await this.tokenManager.getAccessToken()`
ConnectorAfterGetAccessToken ==
  /\ ConnectorResumes("tokenManager", "getAccessToken")
  /\ LET r == call[ConnectorSlot]
     IN connector' =
          IF r.pc = "returned"
          THEN [connector EXCEPT !.pc = "getTokenData",
                  !.refreshes = r.nRefresh,
                  !.obtained = [ok |-> TRUE, value |-> r.retToken]]
          ELSE ConnectorCaught(
                 [connector EXCEPT !.refreshes = r.nRefresh,
                    !.obtained = [ok |-> FALSE, value |-> r.error]],
                 r.error)

\* the heuristic replaced by what it stands for: the 'refreshed' notification
\* goes out when the call has refreshed
ConnectorAfterGetTokenData_whenRefreshed(h) ==
  /\ ConnectorResumes("getTokenData", "getTokenData")
  /\ LET r == call[ConnectorSlot]
         tokenData == r.retData
     IN connector' =
          IF r.pc = "thrown"
          THEN ConnectorCaught(connector, r.error)
          ELSE IF tokenData # Null /\ connector.refreshes > 0
               THEN LET c == Notify(connector, "onTokenRefreshed")
                    IN IF HandlerThrows("onTokenRefreshed", h)
                       THEN ConnectorCaught(c, "onTokenRefreshed")
                       ELSE [c EXCEPT !.pc = "returned",
                                      !.result = connector.obtained]
               ELSE [connector EXCEPT !.pc = "returned",
                                      !.result = connector.obtained]

\* after `const tokenData = await this.tokenManager.getTokenData()`: the
\* heuristic, the 'refreshed' notification, `return token`
ConnectorAfterGetTokenData(h) ==
  /\ ConnectorResumes("getTokenData", "getTokenData")
  /\ LET r == call[ConnectorSlot]
         tokenData == r.retData
     IN connector' =
          IF r.pc = "thrown"
          THEN ConnectorCaught(connector, r.error)
          ELSE IF tokenData # Null
                  /\ tokenData.expiresAt - now > JustRefreshedMs
               THEN LET c == Notify(connector, "onTokenRefreshed")
                    IN IF HandlerThrows("onTokenRefreshed", h)
                       THEN ConnectorCaught(c, "onTokenRefreshed")
                       ELSE [c EXCEPT !.pc = "returned",
                                      !.result = connector.obtained]
               ELSE [connector EXCEPT !.pc = "returned",
                                      !.result = connector.obtained]

\* after `const tokenData = await this.tokenManager.refreshToken()`: the
\* 'refreshed' notification, `return tokenData`
ConnectorAfterRefreshToken(h) ==
  /\ ConnectorResumes("tokenManager", "refreshToken")
  /\ LET r == call[ConnectorSlot]
     IN connector' =
          IF r.pc = "thrown"
          THEN ConnectorCaught(
                 [connector EXCEPT !.obtained = [ok |-> FALSE, value |-> r.error]],
                 r.error)
          ELSE LET got == [ok |-> TRUE, value |-> r.retData]
                   c == Notify([connector EXCEPT !.obtained = got],
                               "onTokenRefreshed")
               IN IF HandlerThrows("onTokenRefreshed", h)
                  THEN ConnectorCaught(c, "onTokenRefreshed")
                  ELSE [c EXCEPT !.pc = "returned", !.result = got]

\* `catch (error) { if (this.onTokenError) await this.onTokenError(err);
\*                  this.logger.error(...); throw err; }`
ConnectorCatch(h) ==
  /\ connector.pc = "catch"
  /\ LET c == Notify(connector, "onTokenError")
         thrown == IF HandlerThrows("onTokenError", h)
                   THEN "onTokenError" ELSE connector.err
     IN connector' = [c EXCEPT !.pc = "thrown",
                        !.result = [ok |-> FALSE, value |-> thrown]]
  /\ UNCHANGED <<now, clockSteps, config, cachedTokenData, stored, timer,
                 serial, call, handlers, server, crypto, vault>>

\* the caller of the Connector resumes
ConnectorReturn ==
  /\ connector.pc \in {"returned", "thrown"}
  /\ connector' = ConnectorIdle
  /\ UNCHANGED <<now, clockSteps, config, cachedTokenData, stored, timer,
                 serial, call, handlers, server, crypto, vault>>

\* ------------------------------------------------------------ HttpClient
\* HttpClient.request: the timeout handed to the runtime's request; the
\* runtime emits 'timeout' only for a request that was given one
request(options) ==
  [method |-> options.method,
   timeout |-> IF Truthy(options.timeout) THEN options.timeout ELSE Undef]

\* HttpClient.post with a default timeout among its options
post_withTimeout == request([method |-> "POST", timeout |-> 30 * MsPerSec])

\* HttpClient.post: `this.request(url, {method: 'POST', headers, body})`
post == request([method |-> "POST", timeout |-> Undef])

\* OAuthService.makeTokenRequest, `await this.httpClient.post(...)`: the
\* pending token request of p ends with the server's answer (a response or
\* an error), or with the runtime's 'timeout' event, which rejects it
TokenRequestEnds(p, io) ==
  /\ \/ server = "answers"
     \/ Truthy(post.timeout) /\ ~io.ok
  /\ \/ GetAccessTokenAfterRefresh(p, io)
     \/ RefreshTokenAfterRefresh(p, io)

\* ----------------------------------------------------- EncryptionService
\* Bytes and characters are symbolic values (records).  The runtime's crypto
\* primitives are ideal: randomBytes never repeats, scrypt and AES-256-GCM
\* are injective in every argument, and a tag verifies only for the key, iv
\* and ciphertext it was computed over.
keyLength == 32
ivLength == 16
saltLength == 16
tagLength == 16

\* tag lengths decipher.setAuthTag accepts for GCM when createDecipheriv was
\* given no authTagLength (any valid length: 32, 64, 96..128 bits)
GcmTagLengths == {4, 8} \cup (12..16)

\* crypto.randomBytes(n), the draw-th call made
randomBytes(draw, n) == [i \in 1..n |-> [random |-> draw, i |-> i]]

\* EncryptionService.deriveKey: scrypt(password, salt, keyLength)
deriveKey(password, salt) ==
  [password |-> password, salt |-> salt, length |-> keyLength]

\* Buffer.subarray(start, end): clamped to the buffer
subarray(data, start, end) ==
  LET len == Len(data)
      from == IF start < len THEN start ELSE len
      to == IF end < len THEN end ELSE len
  IN SubSeq(data, from + 1, to)

\* cipher.update(data, 'utf8', 'hex') + cipher.final('hex'): the UTF-8 bytes
\* of data, sealed one by one (GCM keeps the length), as hex digits
cipherHex(key, iv, data) ==
  LET sealed(j) == [sealed |-> [utf8 |-> data[j]], key |-> key, iv |-> iv,
                    at |-> j]
  IN [x \in 1..(2 * Len(data)) |->
        [hex |-> sealed((x + 1) \div 2), high |-> (x % 2) = 1]]

\* Buffer.from(encrypted, 'hex')
fromHex(digits) ==
  [j \in 1..(Len(digits) \div 2) |->
     LET hi == digits[2 * j - 1]
         lo == digits[2 * j]
     IN IF hi.hex = lo.hex /\ hi.high /\ ~lo.high
        THEN hi.hex ELSE [garbled |-> <<hi, lo>>]]

\* cipher.getAuthTag(): the tag over key, iv and ciphertext
getAuthTag(key, iv, encrypted) ==
  [i \in 1..tagLength |->
     [tag |-> i, key |-> key, iv |-> iv, over |-> encrypted]]

\* Buffer.toString('base64'): three bytes make four characters, the last
\* group is padded
toBase64(data) ==
  LET len == Len(data)
      group(g) == subarray(data, 3 * (g - 1), 3 * g)
      char(g, k) == IF k <= Len(group(g)) + 1
                    THEN [base64 |-> group(g), k |-> k]
                    ELSE [pad |-> TRUE]
  IN [x \in 1..(4 * ((len + 2) \div 3)) |->
        char(((x - 1) \div 4) + 1, ((x - 1) % 4) + 1)]

\* Buffer.from(text, 'base64'): decodes up to the padding; byte j of a group
\* comes from its characters j and j + 1, an incomplete last group gives the
\* bytes it still determines
fromBase64(text) ==
  LET body == SelectSeq(text, LAMBDA c : c # [pad |-> TRUE])
      rest == Len(body) % 4
      len == (3 * (Len(body) \div 4)) + (IF rest >= 2 THEN rest - 1 ELSE 0)
      byte(y) ==
        LET g == (y - 1) \div 3
            j == ((y - 1) % 3) + 1
            c1 == body[4 * g + j]
            c2 == body[4 * g + j + 1]
        IN IF c1.base64 = c2.base64 /\ c1.k = j /\ c2.k = j + 1
              /\ j <= Len(c1.base64)
           THEN c1.base64[j] ELSE [garbled |-> <<c1, c2>>]
  IN [y \in 1..len |-> byte(y)]

\* `Buffer.concat([salt, iv, encrypted, tag])`: the tag put last
concat_tagLast(salt, iv, tag, encrypted) == salt \o iv \o encrypted \o tag

\* `Buffer.concat([salt, iv, tag, Buffer.from(encrypted, 'hex')])`
concat(salt, iv, tag, encrypted) == salt \o iv \o tag \o encrypted

\* encrypt with a salt and an iv drawn once and kept
encrypt_staticSaltAndIv(data, password, draw) ==
  LET salt == randomBytes(0, saltLength)
      iv == randomBytes(1, ivLength)
      key == deriveKey(password, salt)
      encrypted == cipherHex(key, iv, data)
      tag == getAuthTag(key, iv, fromHex(encrypted))
  IN toBase64(concat(salt, iv, tag, fromHex(encrypted)))

\* EncryptionService.encrypt, its randomBytes calls being the draw-th and
\* the next
encrypt(data, password, draw) ==
  LET salt == randomBytes(draw, saltLength)
      iv == randomBytes(draw + 1, ivLength)
      key == deriveKey(password, salt)
      encrypted == cipherHex(key, iv, data)
      tag == getAuthTag(key, iv, fromHex(encrypted))
  IN toBase64(concat(salt, iv, tag, fromHex(encrypted)))

\* decipher.final() that does not verify the tag
authentic_unchecked(key, iv, tag, encrypted) == TRUE

\* decipher.setAuthTag(tag) throws on an invalid tag length; decipher.final()
\* throws unless the tag is the leading part of the one computed
authentic(key, iv, tag, encrypted) ==
  /\ Len(tag) \in GcmTagLengths
  /\ tag = subarray(getAuthTag(key, iv, encrypted), 0, Len(tag))

\* EncryptionService.decrypt: [ok |-> TRUE, value |-> the string returned],
\* or the error thrown.  createDecipheriv throws on an empty iv; what a byte
\* sealed otherwise deciphers to is no UTF-8 and decodes to U+FFFD
decrypt(encryptedData, password) ==
  LET data == fromBase64(encryptedData)
      salt == subarray(data, 0, saltLength)
      iv == subarray(data, saltLength, saltLength + ivLength)
      tag == subarray(data, saltLength + ivLength,
                      saltLength + ivLength + tagLength)
      encrypted == subarray(data, saltLength + ivLength + tagLength, Len(data))
      key == deriveKey(password, salt)
      opened(j) ==
        LET b == encrypted[j]
        IN IF DOMAIN b = {"sealed", "key", "iv", "at"}
           THEN IF b.key = key /\ b.iv = iv /\ b.at = j
                THEN b.sealed ELSE [garbled |-> b]
           ELSE [garbled |-> b]
      decrypted == [j \in 1..Len(encrypted) |->
                      IF DOMAIN opened(j) = {"utf8"}
                      THEN opened(j).utf8 ELSE [replacement |-> TRUE]]
  IN IF Len(iv) > 0 /\ authentic(key, iv, tag, encrypted)
     THEN [ok |-> TRUE, value |-> decrypted]
     ELSE [ok |-> FALSE, value |-> "Decryption failed"]

\* strings handed to the service
Plaintexts == {<<>>, <<"a">>, <<"a", "b">>}
Passwords == {"key1", "key2"}

\* what may happen to a blob between encrypt and decrypt: nothing, one byte
\* of it changed, or its text cut short
Handlings(blob) ==
  {[how |-> "intact", at |-> 0]}
  \cup {[how |-> "modified", at |-> i] : i \in 1..Len(fromBase64(blob))}
  \cup {[how |-> "truncated", at |-> n] : n \in 0..(Len(blob) - 1)}

Handled(blob, h) ==
  CASE h.how = "intact" -> blob
    [] h.how = "modified" ->
         toBase64([fromBase64(blob) EXCEPT ![h.at] = [changed |-> @]])
    [] h.how = "truncated" -> SubSeq(blob, 1, h.at)

\* produced: the encrypt calls made, each with its arguments and the number
\* of its first randomBytes call, which determine the blob it returned;
\* draws: randomBytes calls made; last: the latest decrypt call, its outcome
CryptoIdle == [produced |-> <<>>, draws |-> 0, last |-> Null]

\* the blob an encrypt call returned
Blob(made) == encrypt(made.data, made.password, made.draw)

Encrypt(data, password) ==
  /\ Len(crypto.produced) < MaxEncrypts
  /\ crypto' =
       [produced |-> Append(crypto.produced,
                            [data |-> data, password |-> password,
                             draw |-> crypto.draws]),
        draws |-> crypto.draws + 2,
        last |-> Null]
  /\ UNCHANGED <<now, clockSteps, config, cachedTokenData, stored, timer,
                 serial, call, handlers, connector, server, vault>>

\* decrypt is called on the blob encrypted last, handled in some way
Decrypt(password) ==
  /\ crypto.produced # <<>>
  /\ crypto.last = Null
  /\ LET blob == Blob(crypto.produced[Len(crypto.produced)])
     IN \E h \in Handlings(blob) :
          crypto' =
            [crypto EXCEPT !.last =
               [how |-> h.how, at |-> h.at, password |-> password,
                out |-> decrypt(Handled(blob, h), password)]]
  /\ UNCHANGED <<now, clockSteps, config, cachedTokenData, stored, timer,
                 serial, call, handlers, connector, server, vault>>

\* ----------------------------------------------------- StorageStrategy
\* Local (a file), Global (a static Map) and Remote (the caller's upload and
\* download callbacks) strategies.  What the backend holds is Null (no file,
\* no Map entry, null), a string [text |-> characters] or, through the Remote
\* callbacks, an object [object |-> value].
StrategyKinds == {"local", "global", "remote"}

\* config.encryptionKey; an empty string is falsy
EncryptionKeys == {"", "key1"}

\* an I/O call (fs, the callbacks) goes through or throws
IoOutcomes == {"done", "fails"}

\* JSON.stringify(tokenData): the members that are defined, in braces
stringify(tokenData) ==
  LET member(n) == [name |-> n, value |-> tokenData[n]]
  IN <<[brace |-> "{"], member("accessToken")>>
     \o (IF Truthy(tokenData.refreshToken)
         THEN <<member("refreshToken")>> ELSE <<>>)
     \o <<member("expiresAt"), [brace |-> "}"]>>

\* JSON.parse(text): the object, or a SyntaxError
parse(text) ==
  LET n == Len(text)
      inner == SubSeq(text, 2, n - 1)
      named(name) == {i \in 1..Len(inner) : inner[i].name = name}
      field(name) == IF named(name) = {} THEN Undef
                     ELSE inner[CHOOSE i \in named(name) : TRUE].value
  IN IF /\ n >= 2
        /\ text[1] = [brace |-> "{"]
        /\ text[n] = [brace |-> "}"]
        /\ \A i \in 1..Len(inner) : DOMAIN inner[i] = {"name", "value"}
     THEN [ok |-> TRUE,
           value |-> TokenData(field("accessToken"), field("refreshToken"),
                               field("expiresAt"))]
     ELSE [ok |-> FALSE, value |-> "SyntaxError"]

\* StorageStrategy.encryptIfNeeded
encryptIfNeeded(key, data, draw) ==
  IF key # "" THEN encrypt(data, key, draw) ELSE data

\* StorageStrategy.decryptIfNeeded
decryptIfNeeded(key, data) ==
  IF key # "" THEN decrypt(data, key) ELSE [ok |-> TRUE, value |-> data]

\* `decryptIfNeeded` then `JSON.parse`: the credential, or the error thrown
decode(key, data) ==
  LET decrypted == decryptIfNeeded(key, data)
  IN IF decrypted.ok THEN parse(decrypted.value) ELSE decrypted

\* saveToken: what the backend is given to hold
saveToken(kind, key, tokenData, draw) ==
  IF kind = "remote"
  THEN IF key # ""
       THEN [object |-> [_encrypted |-> TRUE,
                         _data |-> encryptIfNeeded(key, stringify(tokenData),
                                                   draw)]]
       ELSE [object |-> tokenData]
  ELSE [text |-> encryptIfNeeded(key, stringify(tokenData), draw)]

\* LocalAuthStrategy.loadToken with every error of the try block rethrown
loadToken_local_noENOENT(key, io, held) ==
  IF io = "fails" \/ held = Null
  THEN [ok |-> FALSE, value |-> "ReadFailed"]
  ELSE decode(key, held.text)

\* LocalAuthStrategy.loadToken: readFile throws ENOENT when there is no file
loadToken_local(key, io, held) ==
  IF io = "fails" THEN [ok |-> FALSE, value |-> "ReadFailed"]
  ELSE IF held = Null THEN [ok |-> TRUE, value |-> Null]
  ELSE decode(key, held.text)

\* loadToken: the value returned, or the error thrown
loadToken(kind, key, io, held) ==
  CASE kind = "local" -> loadToken_local(key, io, held)
    [] kind = "global" ->
         IF held = Null \/ held.text = <<>>
         THEN [ok |-> TRUE, value |-> Null]
         ELSE decode(key, held.text)
    [] kind = "remote" ->
         IF io = "fails" THEN [ok |-> FALSE, value |-> "DownloadFailed"]
         ELSE IF held = Null THEN [ok |-> TRUE, value |-> Null]
         ELSE IF /\ key # ""
                 /\ DOMAIN held.object = {"_encrypted", "_data"}
                 /\ held.object._data # <<>>
              THEN decode(key, held.object._data)
              ELSE [ok |-> TRUE, value |-> held.object]

\* no strategy is in use
VaultIdle ==
  [kind |-> "global", key |-> "", held |-> Null, saved |-> Null, draws |-> 0,
   last |-> Null]

\* kind, key: the strategy constructed; held: what its backend holds; saved:
\* the credential of the last saveToken, while what it wrote is still held;
\* last: the latest call and its outcome
StrategySaveToken(tokenData, io) ==
  /\ vault.draws < 2 * MaxEncrypts
  /\ LET failed == io = "fails" /\ vault.kind # "global"
     IN vault' =
          [vault EXCEPT
             !.held = IF failed THEN @
                      ELSE saveToken(vault.kind, vault.key, tokenData,
                                     vault.draws),
             !.saved = IF failed THEN @ ELSE tokenData,
             !.draws = IF vault.key # "" THEN @ + 2 ELSE @,
             !.last = [op |-> "saveToken", io |-> io,
                       found |-> vault.held # Null,
                       out |-> IF failed
                               THEN [ok |-> FALSE, value |-> "WriteFailed"]
                               ELSE [ok |-> TRUE, value |-> Null]]]
  /\ UNCHANGED <<now, clockSteps, config, cachedTokenData, stored, timer,
                 serial, call, handlers, connector, server, crypto>>

StrategyLoadToken(io) ==
  /\ vault' =
       [vault EXCEPT
          !.last = [op |-> "loadToken", io |-> io, found |-> vault.held # Null,
                    out |-> loadToken(vault.kind, vault.key, io, vault.held)]]
  /\ UNCHANGED <<now, clockSteps, config, cachedTokenData, stored, timer,
                 serial, call, handlers, connector, server, crypto>>

\* deleteToken: fs.unlink (ENOENT is swallowed), Map.delete, onUpload(null)
StrategyDeleteToken(io) ==
  /\ LET failed == io = "fails" /\ vault.kind # "global"
     IN vault' =
          [vault EXCEPT
             !.held = IF failed THEN @ ELSE Null,
             !.saved = IF failed THEN @ ELSE Null,
             !.last = [op |-> "deleteToken", io |-> io,
                       found |-> vault.held # Null,
                       out |-> IF failed
                               THEN [ok |-> FALSE, value |-> "DeleteFailed"]
                               ELSE [ok |-> TRUE, value |-> Null]]]
  /\ UNCHANGED <<now, clockSteps, config, cachedTokenData, stored, timer,
                 serial, call, handlers, connector, server, crypto>>

\* the stored string loses its second half (a write cut short, a damaged
\* file); an object handed to the Remote callbacks loses its expiresAt
Damage ==
  /\ vault.held # Null
  /\ LET cut(text) == SubSeq(text, 1, Len(text) \div 2)
         h == vault.held
     IN /\ IF DOMAIN h = {"text"} THEN Len(h.text) > 1
           ELSE IF DOMAIN h.object = {"_encrypted", "_data"}
                THEN Len(h.object._data) > 1
                ELSE Truthy(h.object.expiresAt)
        /\ vault' =
             [vault EXCEPT
                !.held = IF DOMAIN h = {"text"} THEN [text |-> cut(h.text)]
                         ELSE IF DOMAIN h.object = {"_encrypted", "_data"}
                         THEN [object |-> [h.object EXCEPT !._data = cut(@)]]
                         ELSE [object |->
                                 [h.object EXCEPT !.expiresAt = Undef]],
                !.saved = Null,
                !.last = Null]
  /\ UNCHANGED <<now, clockSteps, config, cachedTokenData, stored, timer,
                 serial, call, handlers, connector, server, crypto>>

\* credentials handed to saveToken
SavedCredentials ==
  {TokenData(AccessTokenOf(1), Undef, now + MsPerSec),
   TokenData(AccessTokenOf(2), StoredRT, now + 2 * MsPerSec)}

\* credentials a previous run may have left in storage
InitiallyStored(t) ==
  {Null} \cup { TokenData(StoredAT, rt, exp) :
                  rt \in {Undef, StoredRT}, exp \in {t, t + 2 * MsPerSec} }

\* what else the storage backend may hold: bytes that do not decode, and a
\* credential written without expiresAt
DamagedStored == {CorruptBlob, TokenData(StoredAT, StoredRT, Undef)}

\* the Connector constructor starts the scheduler when background sync is
\* enabled; a TokenManager built on its own has no timer until it is started
StartedAtConstruction(t) ==
  {Null} \cup (IF Truthy(backgroundSyncIntervalSecs)
               THEN {[due |-> t + backgroundSyncIntervalSecs * MsPerSec]}
               ELSE {})

InitTokenManager ==
  /\ now = 5 * MsPerSec
  /\ clockSteps = 0
  /\ storageStrategy \in BOOLEAN
  /\ cfgRefreshToken \in {Undef, StaticRT}
  /\ graceExpiryTimeSecs \in
       {constructorGrace(g) : g \in GraceExpiryTimeInSecsChoices}
  /\ backgroundSyncIntervalSecs \in {Undef, 1}
  /\ cachedTokenData = Null
  /\ stored \in (IF storageStrategy
                 THEN InitiallyStored(now) \cup DamagedStored ELSE {Null})
  /\ backgroundSyncInterval \in StartedAtConstruction(now)
  /\ liveTimers = IF backgroundSyncInterval = Null THEN 0 ELSE 1
  /\ provider \in [rotates : BOOLEAN, expires_in : ExpiresInChoices]
  /\ serial = 0
  /\ call = [p \in Procs |-> Idle]

\* a TokenManager used on its own
Init ==
  /\ InitTokenManager
  /\ handlers = {}
  /\ connector = ConnectorIdle
  /\ server = "answers"
  /\ crypto = CryptoIdle
  /\ vault = VaultIdle

\* storage I/O completing, promises settling, time passing
NextEnv ==
  \/ \E p \in Procs : LoadIO(p)
  \/ \E p \in Procs : SaveIO(p)
  \/ \E p \in Procs : Return(p)
  \/ \E d \in ClockDeltas : Advance(d)

\* foreground token operations, in the slots S
ForegroundIn(S) ==
  \/ \E p \in S : GetAccessToken(p)
  \/ \E p \in S : GetAccessTokenAfterLoad(p)
  \/ \E p \in S, io \in TokenResponses : GetAccessTokenAfterRefresh(p, io)
  \/ \E p \in S : GetAccessTokenAfterSave(p)
  \/ \E p \in S : RefreshToken(p)
  \/ \E p \in S : RefreshTokenAfterLoad(p)
  \/ \E p \in S, io \in TokenResponses : RefreshTokenAfterRefresh(p, io)
  \/ \E p \in S : RefreshTokenAfterSave(p)

\* the scheduler's callback running in the slots S
TicksIn(S) ==
  \/ \E p \in S : TimerFire(p)
  \/ \E p \in S : TickAfterLoad(p)
  \/ \E p \in S, io \in TokenResponses : TickAfterRefresh(p, io)
  \/ \E p \in S : TickAfterSave(p)

\* the scheduler started and stopped by hand
BackgroundIn(S) ==
  \/ StartBackgroundSync
  \/ StopBackgroundSync
  \/ TicksIn(S)

\* reading and deleting the credential, in the slots S
DataIn(S) ==
  \/ \E p \in S : GetTokenData(p)
  \/ \E p \in S : GetTokenDataAfterLoad(p)
  \/ \E p \in S : DeleteToken(p)
  \/ \E p \in S : DeleteIO(p)
  \/ \E p \in S : DeleteTokenAfterDelete(p)

\* the synchronous operations on the cache
NextCache ==
  \/ ClearCache
  \/ Destroy
  \/ \E tokenData \in ExchangedTokens : SetCachedToken(tokenData)

\* calls made through the Connector, one at a time, with any handlers
InitConnector ==
  /\ InitTokenManager
  /\ ~Truthy(backgroundSyncIntervalSecs)
  /\ stored \notin DamagedStored
  /\ handlers \in SUBSET Notifications
  /\ connector = ConnectorIdle
  /\ server = "answers"
  /\ crypto = CryptoIdle
  /\ vault = VaultIdle

\* getTokenData() is called right after a getAccessToken() that returned,
\* so it finds the cache entry and never reads storage
NextConnector ==
  \/ \E h \in HandlerOutcomes : ConnectorGetAccessToken(h)
  \/ ConnectorCallsGetAccessToken
  \/ GetAccessTokenAfterLoad(ConnectorSlot)
  \/ \E io \in TokenResponses : GetAccessTokenAfterRefresh(ConnectorSlot, io)
  \/ GetAccessTokenAfterSave(ConnectorSlot)
  \/ ConnectorAfterGetAccessToken
  \/ ConnectorCallsGetTokenData
  \/ \E h \in HandlerOutcomes : ConnectorAfterGetTokenData(h)
  \/ \E h \in HandlerOutcomes : ConnectorRefreshToken(h)
  \/ ConnectorCallsRefreshToken
  \/ RefreshTokenAfterLoad(ConnectorSlot)
  \/ \E io \in TokenResponses : RefreshTokenAfterRefresh(ConnectorSlot, io)
  \/ RefreshTokenAfterSave(ConnectorSlot)
  \/ \E h \in HandlerOutcomes : ConnectorAfterRefreshToken(h)
  \/ \E h \in HandlerOutcomes : ConnectorCatch(h)
  \/ ConnectorReturn
  \/ LoadIO(ConnectorSlot)
  \/ SaveIO(ConnectorSlot)
  \/ \E d \in ClockDeltas : Advance(d)

SpecConnector == InitConnector /\ [][NextConnector]_vars

\* one foreground call at a time against a server that may never answer;
\* the event loop runs whatever is ready
InitHttp ==
  /\ InitTokenManager
  /\ ~Truthy(backgroundSyncIntervalSecs)
  /\ stored \notin DamagedStored
  /\ handlers = {}
  /\ connector = ConnectorIdle
  /\ server \in {"answers", "silent"}
  /\ crypto = CryptoIdle
  /\ vault = VaultIdle

NextHttp ==
  \/ \E p \in {1} : GetAccessToken(p)
  \/ \E p \in {1} : GetAccessTokenAfterLoad(p)
  \/ \E p \in {1} : GetAccessTokenAfterSave(p)
  \/ \E p \in {1} : RefreshToken(p)
  \/ \E p \in {1} : RefreshTokenAfterLoad(p)
  \/ \E p \in {1} : RefreshTokenAfterSave(p)
  \/ \E p \in {1}, io \in TokenResponses : TokenRequestEnds(p, io)
  \/ NextEnv

SpecHttp == InitHttp /\ [][NextHttp]_vars /\ WF_vars(NextHttp)

\* the EncryptionService on its own: blobs are made, handled and decrypted
InitCrypto ==
  /\ InitTokenManager
  /\ ~storageStrategy
  /\ cfgRefreshToken = Undef
  /\ graceExpiryTimeSecs = 0
  /\ ~Truthy(backgroundSyncIntervalSecs)
  /\ provider = [rotates |-> FALSE, expires_in |-> Undef]
  /\ handlers = {}
  /\ connector = ConnectorIdle
  /\ server = "answers"
  /\ crypto = CryptoIdle
  /\ vault = VaultIdle

NextCrypto ==
  \/ \E data \in Plaintexts, password \in Passwords : Encrypt(data, password)
  \/ \E password \in Passwords : Decrypt(password)

SpecCrypto == InitCrypto /\ [][NextCrypto]_vars

\* a storage strategy of any kind, with or without a passphrase, used on
\* its own
InitStorage ==
  /\ InitTokenManager
  /\ ~storageStrategy
  /\ cfgRefreshToken = Undef
  /\ graceExpiryTimeSecs = 0
  /\ ~Truthy(backgroundSyncIntervalSecs)
  /\ provider = [rotates |-> FALSE, expires_in |-> Undef]
  /\ handlers = {}
  /\ connector = ConnectorIdle
  /\ server = "answers"
  /\ crypto = CryptoIdle
  /\ vault \in {[VaultIdle EXCEPT !.kind = kind, !.key = key] :
                  kind \in StrategyKinds, key \in EncryptionKeys}

NextStorage ==
  \/ \E tokenData \in SavedCredentials, io \in IoOutcomes :
        StrategySaveToken(tokenData, io)
  \/ \E io \in IoOutcomes : StrategyLoadToken(io)
  \/ \E io \in IoOutcomes : StrategyDeleteToken(io)
  \/ Damage

SpecStorage == InitStorage /\ [][NextStorage]_vars

Next ==
  \/ NextEnv
  \/ ForegroundIn(Callers)
  \/ BackgroundIn(TickSlots)
  \/ DataIn(Callers)
  \/ NextCache
  \/ NextConnector
  \/ NextHttp
  \/ NextCrypto
  \/ NextStorage
  \/ IntervalElapses

Spec == Init /\ [][Next]_vars

\* foreground calls only: getAccessToken() and refreshToken(), two at a time
InitFg ==
  Init /\ ~Truthy(backgroundSyncIntervalSecs) /\ stored \notin DamagedStored

NextFg == NextEnv \/ ForegroundIn(Callers)

SpecFg == InitFg /\ [][NextFg]_vars

\* the scheduler alone, its ticks overlapping
InitBg ==
  /\ Init
  /\ Truthy(backgroundSyncIntervalSecs)
  /\ stored \notin DamagedStored
  /\ backgroundSyncInterval = Null

NextBg == NextEnv \/ BackgroundIn(TickSlots)

SpecBg == InitBg /\ [][NextBg]_vars

\* the scheduler, started at construction and left running, next to
\* foreground calls: one call and one tick at a time
InitMixed ==
  /\ Init
  /\ Truthy(backgroundSyncIntervalSecs)
  /\ stored \notin DamagedStored
  /\ backgroundSyncInterval # Null

NextMixed == NextEnv \/ ForegroundIn({1}) \/ TicksIn({3})

SpecMixed == InitMixed /\ [][NextMixed]_vars

\* sequential use: one foreground call at a time, no scheduler
NextSeq == NextEnv \/ ForegroundIn({1})

SpecSeq == InitFg /\ [][NextSeq]_vars

\* sequential use of every foreground operation, on any stored content
InitData == Init /\ ~Truthy(backgroundSyncIntervalSecs)

NextData == NextEnv \/ ForegroundIn({1}) \/ DataIn({1}) \/ NextCache

SpecData == InitData /\ [][NextData]_vars

\* the life cycle of the scheduler: start, ticks, stop, destroy
NextLife == NextEnv \/ BackgroundIn({3}) \/ NextCache

SpecLife == InitBg /\ [][NextLife]_vars

\* the scheduler left to itself for ever: a credential from a code exchange
\* is cached once, before the first tick, and no foreground call follows.
\* The event loop runs whatever is ready; a storage call or a token request
\* that is retried again and again succeeds in the end.
NextSched ==
  \/ NextEnv
  \/ TicksIn({3})
  \/ IntervalElapses
  \/ \E tokenData \in ExchangedTokens :
        cachedTokenData = Null /\ clockSteps = 0 /\ SetCachedToken(tokenData)

LoadSucceeds == \E p \in Procs : LoadIO(p) /\ call'[p].io.ok

SaveSucceeds == \E p \in Procs : SaveIO(p) /\ call'[p].io.ok

RefreshSucceeds ==
  \E p \in {3}, io \in TokenResponses : io.ok /\ TickAfterRefresh(p, io)

SpecSched ==
  /\ InitMixed
  /\ [][NextSched]_vars
  /\ WF_vars(NextSched)
  /\ SF_vars(LoadSucceeds) /\ SF_vars(SaveSucceeds) /\ SF_vars(RefreshSucceeds)

TypeOK ==
  /\ \A p \in Procs : call[p].pc \in
       {"idle", "loadPending", "loadReady", "refreshPending",
        "savePending", "saveReady", "deletePending", "deleteReady",
        "returned", "thrown"}
  /\ clockSteps \in 0..MaxClockSteps
  /\ serial \in 0..MaxTokens
  /\ liveTimers \in Nat

\* ------------------------------------------------------------ properties
\* the freshness policy as the specification words it: now < expiresAt - grace
FreshBySpec(tokenData) ==
  /\ tokenData # Null
  /\ tokenData.expiresAt # Undef
  /\ tokenData.expiresAt - graceExpiryTimeSecs * MsPerSec > now

\* invocations that have called refreshAccessToken and are still waiting for it
RefreshesInFlight(S) == {p \in S : call[p].pc = "refreshPending"}

\* C1: while the cached credential is stale, concurrent getAccessToken() calls
\* issue one refreshAccessToken call between them: no two of them are ever
\* waiting for a refresh of their own at the same time.
C1_SingleRefreshForConcurrentCalls ==
  (cachedTokenData # Null /\ ~FreshBySpec(cachedTokenData))
    => Cardinality({p \in RefreshesInFlight(Callers) :
                      call[p].op = "getAccessToken"}) <= 1

\* C2: a getAccessToken() call that finds a fresh credential in the cache
\* returns that credential's accessToken in the same step, without a storage
\* load or save and without a refresh, leaving cache and storage as they were.
C2_CacheHitStep(p) ==
  (/\ call[p].pc = "idle"
   /\ call'[p].op = "getAccessToken"
   /\ FreshBySpec(cachedTokenData))
    => /\ call'[p].pc = "returned"
       /\ call'[p].retToken = cachedTokenData.accessToken
       /\ call'[p].nLoad = 0 /\ call'[p].nRefresh = 0 /\ call'[p].nSave = 0
       /\ UNCHANGED <<cachedTokenData, stored, serial>>

C2_CacheHitNoIO == [][\A p \in Callers : C2_CacheHitStep(p)]_vars

\* C2 witness: a call has returned the token of the fresh cached credential
\* of a manager that has a storage strategy, without loading
C2_Witness ==
  \E p \in Callers :
    /\ call[p].op = "getAccessToken" /\ call[p].pc = "returned"
    /\ storageStrategy /\ call[p].nLoad = 0
    /\ FreshBySpec(cachedTokenData)
    /\ call[p].retToken = cachedTokenData.accessToken

\* C3: at most one run of the scheduler's callback is unfinished at any time:
\* the timer does not start a tick while the previous one is still at work.
C3_TicksNeverOverlap == Cardinality({p \in TickSlots : InFlight(p)}) <= 1

\* C4: at most one refreshAccessToken call is in flight per manager, whether
\* it comes from getAccessToken(), refreshToken() or a background tick.
C4_AtMostOneRefreshInFlight == Cardinality(RefreshesInFlight(Procs)) <= 1

\* C5: when getAccessToken() or refreshToken() fails on a storage load, a
\* refresh or a storage save, the cache entry is absent by the time the error
\* reaches the caller; and a getAccessToken() that starts with an absent cache
\* entry never answers from the cache: it loads, refreshes or fails.
C5_ErrorSeenWithEmptyCache ==
  \A p \in Callers :
    (/\ call[p].pc = "thrown"
     /\ call[p].op \in {"getAccessToken", "refreshToken"}
     /\ call[p].error \in {"LoadFailed", "RefreshFailed", "SaveFailed"})
      => cachedTokenData = Null

C5_RetryStep(p) ==
  (/\ call[p].pc = "idle"
   /\ call'[p].op = "getAccessToken"
   /\ cachedTokenData = Null)
    => call'[p].pc \in {"loadPending", "refreshPending", "thrown"}

C5_FailureInvalidatesCache ==
  /\ []C5_ErrorSeenWithEmptyCache
  /\ [][\A p \in Callers : C5_RetryStep(p)]_vars

\* C5 witness: a getAccessToken() that had a credential to refresh has failed
\* on the storage save and the cache entry is absent
C5_Witness ==
  \E p \in Callers :
    /\ call[p].op = "getAccessToken" /\ call[p].pc = "thrown"
    /\ call[p].error = "SaveFailed"
    /\ call[p].tokenData # Null
    /\ cachedTokenData = Null

\* C6: when getAccessToken() finds no credential (or a stale one without a
\* refreshToken) and no refresh token is configured, it fails with the
\* missing-refresh-token error and has not called refreshAccessToken.
C6_Step(p) ==
  LET tokenData == IF storageStrategy THEN call[p].io.value
                                      ELSE cachedTokenData
      deciding == /\ call'[p].op = "getAccessToken"
                  /\ IF storageStrategy
                     THEN /\ call[p].op = "getAccessToken"
                          /\ call[p].pc = "loadReady"
                          /\ call[p].io.ok
                          /\ call'[p].pc # "loadReady"
                     ELSE call[p].pc = "idle"
  IN (/\ deciding
      /\ cfgRefreshToken = Undef
      /\ \/ tokenData = Null
         \/ ~FreshBySpec(tokenData) /\ tokenData.refreshToken = Undef)
       => /\ call'[p].pc = "thrown"
          /\ call'[p].error = "NoRefreshToken"
          /\ call'[p].nRefresh = 0
          /\ serial' = serial

C6_MissingRefreshToken == [][\A p \in Callers : C6_Step(p)]_vars

\* C6 witness: storage held a stale credential without a refreshToken, none
\* is configured, and getAccessToken() has failed without refreshing
C6_Witness ==
  \E p \in Callers :
    /\ call[p].op = "getAccessToken" /\ call[p].pc = "thrown"
    /\ call[p].error = "NoRefreshToken"
    /\ storageStrategy /\ cfgRefreshToken = Undef
    /\ call[p].tokenData # Null /\ call[p].tokenData.refreshToken = Undef
    /\ call[p].nRefresh = 0

\* C7: every refreshAccessToken call is made with the loaded credential's own
\* refreshToken when it has one, and with the configured refresh token only
\* when the credential is absent or has none.
C7_OwnRefreshTokenPreferred ==
  \A p \in Procs :
    call[p].nRefresh > 0 =>
      call[p].refreshToken =
        IF call[p].tokenData # Null /\ call[p].tokenData.refreshToken # Undef
        THEN call[p].tokenData.refreshToken
        ELSE cfgRefreshToken

\* C7 witness: a refresh was issued with the credential's own refresh token
\* although a different refresh token is configured
C7_Witness ==
  \E p \in Procs :
    /\ call[p].nRefresh > 0
    /\ call[p].tokenData # Null
    /\ call[p].tokenData.refreshToken = StoredRT
    /\ cfgRefreshToken = StaticRT
    /\ call[p].refreshToken = StoredRT

\* C8: in sequential use, a getAccessToken() that finds a stale credential
\* with a refreshToken and returns has refreshed exactly once, saved the new
\* credential (when storage is configured), made it the cache entry and
\* returned its accessToken; the new credential expires expires_in seconds
\* (3600 when the server omits it) after the time of the refresh.
C8_StaleCredentialRefreshed ==
  \A p \in Callers :
    (/\ call[p].op = "getAccessToken" /\ call[p].pc = "returned"
     /\ call[p].tokenData # Null
     /\ ~FreshBySpec(call[p].tokenData)
     /\ call[p].tokenData.refreshToken # Undef)
      => /\ call[p].nRefresh = 1
         /\ call[p].newTokenData # Null
         /\ call[p].newTokenData.accessToken = AccessTokenOf(serial)
         /\ call[p].newTokenData.expiresAt =
              call[p].refreshedAt
                + (IF provider.expires_in = Undef THEN 3600
                                                  ELSE provider.expires_in)
                  * 1000
         /\ IF storageStrategy
            THEN call[p].nSave = 1 /\ stored = call[p].newTokenData
            ELSE call[p].nSave = 0
         /\ cachedTokenData = call[p].newTokenData
         /\ call[p].retToken = call[p].newTokenData.accessToken

\* C8 witness: scenario B - a stale stored credential with a refreshToken, the
\* server omits expires_in, the call has returned the new access token
C8_Witness ==
  \E p \in Callers :
    /\ call[p].op = "getAccessToken" /\ call[p].pc = "returned"
    /\ storageStrategy /\ provider.expires_in = Undef
    /\ call[p].tokenData # Null /\ ~FreshBySpec(call[p].tokenData)
    /\ call[p].tokenData.refreshToken # Undef
    /\ call[p].nRefresh = 1
    /\ stored.expiresAt = call[p].refreshedAt + 3600000
    /\ call[p].retToken = stored.accessToken

\* C9: when the storage load of a getAccessToken() yields a fresh credential,
\* the call returns that credential's accessToken and makes it the cache
\* entry, with no refresh and no save.
C9_Step(p) ==
  (/\ call[p].op = "getAccessToken"
   /\ call[p].pc = "loadReady"
   /\ call'[p].pc # "loadReady"
   /\ call[p].io.ok
   /\ FreshBySpec(call[p].io.value))
    => /\ call'[p].pc = "returned"
       /\ call'[p].retToken = call[p].io.value.accessToken
       /\ cachedTokenData' = call[p].io.value
       /\ call'[p].nRefresh = 0 /\ call'[p].nSave = 0
       /\ UNCHANGED <<stored, serial>>

C9_FreshStoredCredentialServed == [][\A p \in Callers : C9_Step(p)]_vars

\* C9 witness: a call has loaded once, not refreshed, and returned the token
\* of the loaded credential, which is now the cache entry
C9_Witness ==
  \E p \in Callers :
    /\ call[p].op = "getAccessToken" /\ call[p].pc = "returned"
    /\ call[p].nLoad = 1 /\ call[p].nRefresh = 0 /\ call[p].nSave = 0
    /\ call[p].tokenData # Null
    /\ cachedTokenData = call[p].tokenData
    /\ call[p].retToken = call[p].tokenData.accessToken

\* C10: in sequential use, a refreshToken() call that has a refresh token to
\* use calls refreshAccessToken exactly once, whether or not the credential at
\* hand is fresh; when it returns, the new credential has been saved (when
\* storage is configured), is the cache entry and is the value returned.
C10_ManualRefreshForced ==
  \A p \in Callers :
    (call[p].op = "refreshToken" /\ Settled(p)) =>
      /\ (/\ call[p].error # "LoadFailed"
          /\ \/ cfgRefreshToken # Undef
             \/ /\ call[p].tokenData # Null
                /\ call[p].tokenData.refreshToken # Undef)
           => call[p].nRefresh = 1
      /\ call[p].pc = "returned" =>
           /\ call[p].nRefresh = 1
           /\ call[p].newTokenData # Null
           /\ call[p].newTokenData.accessToken = AccessTokenOf(serial)
           /\ call[p].retData = call[p].newTokenData
           /\ cachedTokenData = call[p].newTokenData
           /\ IF storageStrategy
              THEN call[p].nSave = 1 /\ stored = call[p].newTokenData
              ELSE call[p].nSave = 0

\* C10 witness: refreshToken() has returned a new credential although the
\* stored credential it loaded was fresh
C10_Witness ==
  \E p \in Callers :
    /\ call[p].op = "refreshToken" /\ call[p].pc = "returned"
    /\ storageStrategy
    /\ FreshBySpec(call[p].tokenData)
    /\ call[p].nRefresh = 1
    /\ call[p].retData = stored
    /\ stored # call[p].tokenData

\* C11: getTokenData() never refreshes and never saves.  With a credential in
\* the cache it returns that credential at once, stale or not, without touching
\* storage; with an empty cache it loads from storage at most once, and a
\* credential it loads becomes the cache entry and the value returned.
C11_NoRefreshNoSave ==
  \A p \in Callers :
    call[p].op = "getTokenData" =>
      call[p].nRefresh = 0 /\ call[p].nSave = 0 /\ call[p].nLoad <= 1

C11_Step(p) ==
  /\ (call[p].pc = "idle" /\ call'[p].op = "getTokenData") =>
       /\ UNCHANGED <<cachedTokenData, stored, serial>>
       /\ IF cachedTokenData # Null
          THEN /\ call'[p].pc = "returned"
               /\ call'[p].retData = cachedTokenData
               /\ call'[p].nLoad = 0
          ELSE IF storageStrategy
               THEN call'[p].pc = "loadPending"
               ELSE call'[p].pc = "returned" /\ call'[p].retData = Null
  /\ (/\ call[p].op = "getTokenData"
      /\ call[p].pc = "loadReady"
      /\ call'[p].pc # "loadReady") =>
       /\ UNCHANGED <<stored, serial>>
       /\ call'[p].pc \in {"returned", "thrown"}
       /\ (call[p].io.ok /\ call[p].io.value # Null) =>
            /\ call'[p].pc = "returned"
            /\ cachedTokenData' = call[p].io.value
            /\ call'[p].retData = call[p].io.value

C11_GetTokenDataOnlyReads ==
  /\ []C11_NoRefreshNoSave
  /\ [][\A p \in Callers : C11_Step(p)]_vars

\* C11 witness: with storage configured, getTokenData() has returned the
\* cached credential, which is stale, without loading
C11_Witness ==
  \E p \in Callers :
    /\ call[p].op = "getTokenData" /\ call[p].pc = "returned"
    /\ storageStrategy /\ call[p].nLoad = 0
    /\ cachedTokenData # Null /\ ~FreshBySpec(cachedTokenData)
    /\ call[p].retData = cachedTokenData

\* a synchronous method o is called in this step
Calls(o) == call[SyncSlot].pc = "idle" /\ call'[SyncSlot].op = o

\* the synchronous method o has just returned
Returned(o) == call[SyncSlot].op = o /\ call[SyncSlot].pc = "returned"

\* C12: whatever start and stop calls were made, the manager has at most one
\* interval timer, and holds its handle exactly when that timer exists; a
\* start while the scheduler runs leaves the timer as it is, and a start while
\* it does not run (never started, or stopped) sets a timer again.
C12_AtMostOneTimer ==
  /\ liveTimers \in {0, 1}
  /\ (backgroundSyncInterval # Null) <=> (liveTimers = 1)

C12_StartStep ==
  Calls("startBackgroundSync") =>
    IF backgroundSyncInterval # Null
    THEN UNCHANGED timer
    ELSE IF Truthy(backgroundSyncIntervalSecs)
         THEN /\ backgroundSyncInterval' # Null
              /\ backgroundSyncInterval'.due =
                   now + backgroundSyncIntervalSecs * 1000
              /\ liveTimers' = 1
         ELSE UNCHANGED timer

C12_StartIsIdempotent ==
  /\ []C12_AtMostOneTimer
  /\ [][C12_StartStep]_vars

\* C12 witness: a start has set a timer while a tick of an earlier timer, since
\* stopped, is still at work: the scheduler runs again after a stop
C12_Witness ==
  /\ Returned("startBackgroundSync")
  /\ call[SyncSlot].log = <<"starting">>
  /\ liveTimers = 1
  /\ \E p \in TickSlots : InFlight(p)

\* everything but the invocation records
managerState == <<now, clockSteps, config, cachedTokenData, stored, timer,
                  serial>>

\* C13: stopBackgroundSync() and destroy() never raise an error, whether or
\* not the scheduler was ever started; a stop leaves no timer, a destroy leaves
\* no timer and no cache entry, and a call made in a state a previous call
\* left (no timer; for destroy also no cache entry) changes nothing.
C13_NeverThrows ==
  call[SyncSlot].op \in {"stopBackgroundSync", "destroy"}
    => call[SyncSlot].pc # "thrown" /\ call[SyncSlot].error = "none"

C13_Step ==
  /\ Calls("stopBackgroundSync") =>
       /\ backgroundSyncInterval' = Null /\ liveTimers' = 0
       /\ backgroundSyncInterval = Null => UNCHANGED managerState
  /\ Calls("destroy") =>
       /\ backgroundSyncInterval' = Null /\ liveTimers' = 0
       /\ cachedTokenData' = Null
       /\ (backgroundSyncInterval = Null /\ cachedTokenData = Null)
            => UNCHANGED managerState

C13_StopAndDestroyIdempotent ==
  /\ []C13_NeverThrows
  /\ [][C13_Step]_vars

\* C13 witness: destroy() has returned having found no timer to stop, while a
\* tick of a timer stopped earlier is still at work: a repeated call
C13_Witness ==
  /\ Returned("destroy")
  /\ call[SyncSlot].log = <<"cache cleared">>
  /\ backgroundSyncInterval = Null /\ cachedTokenData = Null
  /\ \E p \in TickSlots : InFlight(p)

\* C14: when destroy() returns there is no timer and no cache entry; destroy()
\* does not touch storage; and while there is no timer no tick begins.
C14_DestroyedState ==
  Returned("destroy") =>
    /\ backgroundSyncInterval = Null /\ liveTimers = 0
    /\ cachedTokenData = Null

C14_Step ==
  /\ Calls("destroy") => stored' = stored
  /\ \A p \in TickSlots :
       (call[p].pc = "idle" /\ call'[p].op = "tick")
         => backgroundSyncInterval # Null /\ liveTimers > 0

C14_DestroyStopsAndClears ==
  /\ []C14_DestroyedState
  /\ [][C14_Step]_vars

\* C14 witness: destroy() has returned after cancelling a running timer; the
\* cache entry is absent and the stored credential is still there
C14_Witness ==
  /\ Returned("destroy")
  /\ call[SyncSlot].log = <<"stopped", "cache cleared">>
  /\ backgroundSyncInterval = Null /\ cachedTokenData = Null
  /\ stored # Null

\* the credentials the manager can have at hand in the current state
CredentialsAtHand ==
  ({cachedTokenData, stored} \cup ExchangedTokens) \ {Null, CorruptBlob}

\* C15: a credential is treated as fresh exactly when now < expiresAt - grace
\* period: at now = expiresAt - grace period it is stale, and without expiresAt
\* it is always stale; the grace period is zero when the constructor is given
\* none.  Treated as fresh means: getAccessToken() answers with it, from the
\* cache or after the load, without refreshing.
C15_Policy ==
  /\ \A tokenData \in CredentialsAtHand :
       /\ isTokenExpired(tokenData) <=>
            ~(/\ tokenData.expiresAt # Undef
              /\ now < tokenData.expiresAt - graceExpiryTimeSecs * 1000)
       /\ tokenData.expiresAt = Undef => isTokenExpired(tokenData)
       /\ now = tokenData.expiresAt - graceExpiryTimeSecs * 1000
            => isTokenExpired(tokenData)
  /\ \A g \in GraceExpiryTimeInSecsChoices :
       /\ ~g.given => constructorGrace(g) = 0
       /\ g.given => constructorGrace(g) = g.value

C15_Step(p) ==
  /\ (/\ call[p].pc = "idle"
      /\ call'[p].op = "getAccessToken"
      /\ cachedTokenData # Null) =>
       (FreshBySpec(cachedTokenData) <=>
          (call'[p].pc = "returned" /\ call'[p].nLoad = 0
                                    /\ call'[p].nRefresh = 0))
  /\ (/\ call[p].op = "getAccessToken"
      /\ call[p].pc = "loadReady"
      /\ call'[p].pc # "loadReady"
      /\ call[p].io.ok
      /\ call[p].io.value # Null) =>
       (FreshBySpec(call[p].io.value) <=>
          (call'[p].pc = "returned" /\ call'[p].nRefresh = 0))

C15_FreshnessPolicy ==
  /\ []C15_Policy
  /\ [][\A p \in Callers : C15_Step(p)]_vars

\* C15 witness: with a grace period of one second, getAccessToken() is
\* refreshing a credential that expires exactly one second from now
C15_Witness ==
  \E p \in Callers :
    /\ call[p].op = "getAccessToken" /\ call[p].pc = "refreshPending"
    /\ graceExpiryTimeSecs = 1
    /\ call[p].tokenData # Null
    /\ call[p].tokenData.expiresAt - 1000 = now

\* C16: a tick never ends with an error thrown out of the callback.  The step
\* in which a storage load, a refresh or a storage save of a tick fails ends
\* the tick normally and changes only the cache entry, which becomes absent:
\* the timer, the stored credential, the configuration and every other
\* invocation are as before, so later ticks and calls run as they would have.
C16_TickNeverThrows ==
  \A p \in TickSlots : call[p].op = "tick" => call[p].pc # "thrown"

C16_Step(p) ==
  (/\ call[p].op = "tick"
   /\ call[p].error = "none"
   /\ call'[p].error # "none") =>
    /\ call'[p].error \in {"LoadFailed", "RefreshFailed", "SaveFailed"}
    /\ call'[p].pc = "returned"
    /\ cachedTokenData' = Null
    /\ UNCHANGED <<now, clockSteps, config, aside, stored, timer, serial>>
    /\ \A q \in Procs \ {p} : call'[q] = call[q]

C16_TickFailureContained ==
  /\ []C16_TickNeverThrows
  /\ [][\A p \in TickSlots : C16_Step(p)]_vars

\* C16 witness: a tick that took a stale credential from the cache has failed
\* on the storage save and ended; the cache entry is absent, the timer runs
C16_Witness ==
  \E p \in TickSlots :
    /\ call[p].op = "tick" /\ call[p].pc = "returned"
    /\ call[p].error = "SaveFailed" /\ call[p].nLoad = 0
    /\ cachedTokenData = Null
    /\ backgroundSyncInterval # Null /\ liveTimers = 1

\* C17: when the stored bytes cannot be decrypted or parsed, getAccessToken()
\* carries on as if storage had returned nothing: it does not fail with the
\* load error, it refreshes with the configured refresh token when there is
\* one, and fails for want of a refresh token when there is none.
C17_CorruptBlobTreatedAsAbsent ==
  \A p \in Callers :
    (/\ call[p].op = "getAccessToken"
     /\ call[p].pc \notin {"loadPending", "loadReady"}
     /\ call[p].io = [ok |-> FALSE, value |-> CorruptBlob]) =>
      /\ call[p].error # "LoadFailed"
      /\ cfgRefreshToken # Undef => call[p].nRefresh = 1
      /\ cfgRefreshToken = Undef => call[p].error = "NoRefreshToken"

\* C18: a credential in the cache, and a credential the manager writes to
\* storage, always has an accessToken and an expiresAt.
C18_KeptCredentialsComplete ==
  /\ cachedTokenData # Null =>
       /\ cachedTokenData.accessToken # Undef
       /\ cachedTokenData.expiresAt # Undef
  /\ \A p \in Procs :
       call[p].pc \in {"savePending", "saveReady"} =>
         /\ call[p].newTokenData.accessToken # Undef
         /\ call[p].newTokenData.expiresAt # Undef

\* C19: the credential a refresh produces carries a refresh token: the one in
\* the server's response when it sends one, and otherwise the refresh token
\* the refresh was made with.
C19_RefreshTokenKept ==
  \A p \in Procs :
    call[p].newTokenData # Null =>
      /\ call[p].newTokenData.refreshToken # Undef
      /\ IF provider.rotates
         THEN \E n \in 1..serial :
                call[p].newTokenData.refreshToken = RotatedRTOf(n)
         ELSE call[p].newTokenData.refreshToken = call[p].refreshToken

\* C19 witness: no credential was at hand, the refresh was made with the
\* configured refresh token, the server sent none, and the new credential,
\* now the cache entry, carries the configured one
C19_Witness ==
  \E p \in Procs :
    /\ call[p].pc = "returned" /\ call[p].nRefresh = 1
    /\ call[p].tokenData = Null
    /\ ~provider.rotates
    /\ call[p].newTokenData # Null
    /\ call[p].newTokenData.refreshToken = StaticRT
    /\ cachedTokenData = call[p].newTokenData

\* C20: when deleteToken() has completed, neither the storage backend nor the
\* cache holds a credential.
C20_DeleteClearsCacheAndStorage ==
  \A p \in Callers :
    (call[p].op = "deleteToken" /\ call[p].pc = "returned") =>
      stored = Null /\ cachedTokenData = Null

\* the place of a notification in the order 'about to fetch', 'refreshed',
\* 'failed'
C21_Rank(n) ==
  CASE n = "onFetchingAccessToken" -> 1
    [] n = "onTokenRefreshed" -> 2
    [] n = "onTokenError" -> 3

\* C21: in every Connector.getAccessToken() or Connector.refreshToken() call
\* the notifications fired so far are in the order 'about to fetch',
\* 'refreshed', 'failed', none of them fired twice, and 'refreshed' and
\* 'failed' are not both among them.
C21_NotificationsInOrderOncePerCall ==
  LET fired == connector.fired
  IN /\ \A i, j \in 1..Len(fired) :
          i < j => C21_Rank(fired[i]) < C21_Rank(fired[j])
     /\ ~(\E i, j \in 1..Len(fired) :
            fired[i] = "onTokenRefreshed" /\ fired[j] = "onTokenError")

\* C22: when a Connector call settles, its TokenManager operation has run
\* and the call gives its caller what that operation gave: the token (or
\* credential) it returned, or the error it failed with, whatever the
\* notification handlers did.
C22_HandlerErrorsLeaveOutcome ==
  connector.pc \in {"returned", "thrown"} =>
    /\ connector.obtained # Null
    /\ connector.result = connector.obtained

\* C23: when the authorization server never answers, a pending token
\* request of getAccessToken() or refreshToken() is eventually ended by a
\* timeout: the call fails, leaving the cache entry absent.
C23_SilentServerRequestTimesOut ==
  (server = "silent" /\ call[1].pc = "refreshPending")
    ~> (call[1].pc = "thrown" /\ cachedTokenData = Null)

\* the encrypt call whose blob the latest decrypt call was given
EncryptedLast == crypto.produced[Len(crypto.produced)]

Decrypted(how) == crypto.last # Null /\ crypto.last.how \in how

\* C24: decrypt, given the blob encrypt returned for a non-empty plaintext
\* and the passphrase it was encrypted with, returns that plaintext.
C24_RoundTrip ==
  (/\ Decrypted({"intact"})
   /\ crypto.last.password = EncryptedLast.password
   /\ EncryptedLast.data # <<>>)
    => /\ crypto.last.out.ok
       /\ crypto.last.out.value = EncryptedLast.data

\* C24 witness: a two-character plaintext has come back from decrypt
C24_Witness ==
  /\ Decrypted({"intact"})
  /\ crypto.last.password = EncryptedLast.password
  /\ EncryptedLast.data = <<"a", "b">>
  /\ crypto.last.out.ok

\* C25: decrypt, given the blob encrypt returned and a passphrase other than
\* the one it was encrypted with, fails with the decryption-failed error and
\* returns no string, whatever the plaintext was.
C25_WrongPassphraseFails ==
  (/\ Decrypted({"intact"})
   /\ crypto.last.password # EncryptedLast.password)
    => /\ ~crypto.last.out.ok
       /\ crypto.last.out.value = "Decryption failed"

\* C25 witness: decrypt has failed on an untouched blob of a non-empty
\* plaintext, called with the other passphrase
C25_Witness ==
  /\ Decrypted({"intact"})
  /\ crypto.last.password # EncryptedLast.password
  /\ EncryptedLast.data # <<>>
  /\ ~crypto.last.out.ok

\* C26: decrypt fails, and returns no string, for every blob of which a byte
\* (of the salt, the iv, the tag or the ciphertext) was changed after
\* encryption, and for every blob that was cut short, down to fewer than the
\* 48 bytes of salt, iv and tag included.
C26_DamagedBlobFails ==
  Decrypted({"modified", "truncated"}) => ~crypto.last.out.ok

\* C27: when an encrypt call returns, any two encrypt calls made so far,
\* also with the same plaintext and passphrase, used different salts and
\* different ivs (and no salt is an iv), and returned different blobs.
C27_FreshSaltAndIv ==
  crypto.last = Null =>
  LET calls == 1..Len(crypto.produced)
      blob == [i \in calls |-> Blob(crypto.produced[i])]
      data == [i \in calls |-> fromBase64(blob[i])]
      salt == [i \in calls |-> subarray(data[i], 0, saltLength)]
      iv == [i \in calls |->
               subarray(data[i], saltLength, saltLength + ivLength)]
  IN \A i, j \in calls :
        /\ salt[i] # iv[j]
        /\ i # j => salt[i] # salt[j] /\ iv[i] # iv[j] /\ blob[i] # blob[j]

\* C27 witness: encrypt was called twice with the same plaintext and the
\* same passphrase
C27_Witness ==
  /\ Len(crypto.produced) >= 2
  /\ crypto.produced[1].data = crypto.produced[2].data
  /\ crypto.produced[1].password = crypto.produced[2].password
  /\ crypto.produced[1].data # <<>>

\* the latest call on the storage strategy was o, and its I/O went through
StrategyDid(o) ==
  /\ vault.last # Null
  /\ vault.last.op = o
  /\ vault.last.io = "done" \/ vault.kind = "global"

\* the strings loadToken has to decrypt and parse, given what is held
C28_ToDecode ==
  IF vault.held = Null THEN {}
  ELSE IF DOMAIN vault.held = {"text"} THEN {vault.held.text}
  ELSE IF vault.key # "" /\ DOMAIN vault.held.object = {"_encrypted", "_data"}
       THEN {vault.held.object._data}
       ELSE {}

C29_SaveLoadRoundTrip ==
  vault.saved # Null =>
    /\ StrategyDid("loadToken") =>
         vault.last.out.ok /\ vault.last.out.value = vault.saved
    /\ IF vault.key = ""
       THEN vault.held \in {[text |-> stringify(vault.saved)],
                            [object |-> vault.saved]}
       ELSE /\ DOMAIN vault.held = {"text"}
            /\ vault.held.text # stringify(vault.saved)
            /\ decrypt(vault.held.text, vault.key) =
                 [ok |-> TRUE, value |-> stringify(vault.saved)]

\* C30: with storage configured, whenever no operation of the manager is in
\* flight, the cache entry is either absent or equal to the credential that
\* storage holds at that moment, whatever the interleaving of getAccessToken,
\* refreshToken and background ticks on the manager.
C30_CacheAgreesWithStorage ==
  (storageStrategy /\ \A p \in Procs : ~InFlight(p)) =>
    (cachedTokenData = Null \/ cachedTokenData = stored)

\* the cache holds a credential that the freshness policy accepts
CacheFresh == cachedTokenData # Null /\ ~isTokenExpired(cachedTokenData)

\* the scheduler runs, the cached credential is stale, a refresh token is at
\* hand, and the server can still issue a token that outlives the grace period
C31_StaleWhileScheduled ==
  /\ backgroundSyncInterval # Null
  /\ cachedTokenData # Null
  /\ isTokenExpired(cachedTokenData)
  /\ Truthy(chooseRefreshToken(cachedTokenData))
  /\ serial < MaxTokens
  /\ (Truthy(provider.expires_in) => provider.expires_in > graceExpiryTimeSecs)

\* C31: while the scheduler runs and a refresh token is available, a cached
\* credential that has become stale is eventually replaced by a fresh one by
\* the scheduler alone (no foreground call), given that refresh and storage
\* calls eventually succeed; also after an earlier tick has failed.
C31_SchedulerRefreshesStaleCache ==
  C31_StaleWhileScheduled ~> (CacheFresh \/ serial = MaxTokens)

\* the tick p begins in this step / resumes after a load that succeeded
TickBegins(p) == call[p].pc = "idle" /\ call'[p].op = "tick"

TickLoaded(p) ==
  /\ call[p].op = "tick"
  /\ call[p].pc = "loadReady"
  /\ call'[p].pc # "loadReady"
  /\ call[p].io.ok

\* the tick p ends in this step without having refreshed or saved, and cache
\* and storage are as they were
TickDoesNothing(p) ==
  /\ call'[p].pc = "returned"
  /\ call'[p].error = "none"
  /\ call'[p].nRefresh = 0
  /\ call'[p].nSave = 0
  /\ UNCHANGED <<cachedTokenData, stored, serial>>

\* the tick p calls refreshAccessToken in this step, with the refresh token
\* getAccessToken would take for the credential td
TickRefreshes(p, td) ==
  /\ call'[p].pc = "refreshPending"
  /\ call'[p].refreshToken = chooseRefreshToken(td)
  /\ call'[p].nRefresh = 1
  /\ UNCHANGED <<cachedTokenData, stored, serial>>

\* the steps of a tick from the server's answer on: the credential made of
\* the response is saved when storage is configured, and becomes the cache
\* entry once it is saved (at once without storage)
C32_AfterRefresh(p) ==
  /\ (/\ call[p].op = "tick"
      /\ call[p].pc = "refreshPending"
      /\ call'[p].pc # "refreshPending"
      /\ serial' = serial + 1) =>
       LET io == CHOOSE r \in TokenResponses : r.ok
           td == refreshAccessToken(call[p].refreshToken, io.value)
       IN /\ call'[p].newTokenData = td
          /\ UNCHANGED stored
          /\ IF storageStrategy
             THEN /\ call'[p].pc = "savePending"
                  /\ call'[p].nSave = 1
                  /\ UNCHANGED cachedTokenData
             ELSE /\ call'[p].pc = "returned"
                  /\ call'[p].nSave = 0
                  /\ cachedTokenData' = td
  /\ (/\ call[p].op = "tick"
      /\ call[p].pc = "saveReady"
      /\ call'[p].pc # "saveReady"
      /\ call[p].io.ok) =>
       /\ call'[p].pc = "returned"
       /\ cachedTokenData' = call[p].newTokenData
       /\ UNCHANGED <<stored, serial>>

\* the tick consults storage exactly when the cache is absent (and storage
\* is configured), and otherwise inspects the cache entry
C32_Consults(p) ==
  TickBegins(p) =>
    /\ call'[p].pc = "loadPending" <=> (cachedTokenData = Null /\ storageStrategy)
    /\ call'[p].pc = "loadPending" =>
         call'[p].nLoad = 1 /\ UNCHANGED <<cachedTokenData, stored, serial>>
    /\ call'[p].pc # "loadPending" => call'[p].nLoad = 0

\* what the tick p does with the credential td it inspects, as claimed:
\* nothing when td is fresh, a refresh when td is stale
C32_InspectsAsClaimed(p, td) ==
  td # Null =>
    IF isTokenExpired(td) THEN TickRefreshes(p, td) ELSE TickDoesNothing(p)

C32_StepAsClaimed(p) ==
  /\ C32_Consults(p)
  /\ (TickBegins(p) /\ call'[p].pc # "loadPending") =>
       C32_InspectsAsClaimed(p, cachedTokenData)
  /\ TickLoaded(p) => C32_InspectsAsClaimed(p, call[p].io.value)
  /\ C32_AfterRefresh(p)

\* C32: a background tick inspects the cached credential and consults storage
\* only when the cache is absent; if the inspected credential is fresh the
\* tick calls neither refresh nor save and leaves cache and storage
\* unchanged; if it is stale the tick refreshes, saves (if storage is
\* configured) and replaces the cache exactly as getAccessToken does.
C32_TickAsClaimed == [][\A p \in TickSlots : C32_StepAsClaimed(p)]_vars

\* what the tick p does with the credential td it inspects: nothing when td
\* is fresh, a refresh when td is stale and a refresh token is at hand, and
\* nothing when td is stale and there is no refresh token
C32_Inspects(p, td) ==
  td # Null =>
    IF isTokenExpired(td) /\ Truthy(chooseRefreshToken(td))
    THEN TickRefreshes(p, td)
    ELSE TickDoesNothing(p)

C32_Step(p) ==
  /\ C32_Consults(p)
  /\ (TickBegins(p) /\ call'[p].pc # "loadPending") =>
       C32_Inspects(p, cachedTokenData)
  /\ TickLoaded(p) => C32_Inspects(p, call[p].io.value)
  /\ C32_AfterRefresh(p)

\* C32 (amended): as C32, except that a tick inspecting a stale credential
\* refreshes only when that credential or the configuration gives a refresh
\* token; with none the tick ends without refreshing, saving or changing the
\* cache (where getAccessToken throws and clears the cache).
C32_TickInspectsThenRefreshes == [][\A p \in TickSlots : C32_Step(p)]_vars

\* C32 witness: a tick took a stale credential from the cache without
\* consulting storage, refreshed, saved and replaced the cache entry
C32_Witness ==
  \E p \in TickSlots :
    /\ call[p].op = "tick" /\ call[p].pc = "returned"
    /\ call[p].error = "none"
    /\ storageStrategy
    /\ call[p].nLoad = 0 /\ call[p].nRefresh = 1 /\ call[p].nSave = 1
    /\ call[p].tokenData # Null
    /\ cachedTokenData = call[p].newTokenData
    /\ stored = call[p].newTokenData

\* the credential getAccessToken() inspects in the step that ends the call p
\* without a refresh: the cache entry (step 1), what was just loaded, or,
\* without storage, the cache entry again (step 2)
C33_Inspected(p) ==
  IF call[p].pc = "loadReady" THEN call[p].io.value ELSE cachedTokenData

C33_Step(p) ==
  (/\ call'[p].op = "getAccessToken"
   /\ call'[p].pc = "returned"
   /\ call[p].pc # "returned") =>
    IF call'[p].nRefresh = 0
    THEN /\ call[p].pc \in {"idle", "loadReady"}
         /\ C33_Inspected(p) # Null
         /\ ~isTokenExpired(C33_Inspected(p))
         /\ call'[p].retToken = C33_Inspected(p).accessToken
    ELSE /\ call'[p].nRefresh = 1
         /\ call'[p].retToken = call'[p].newTokenData.accessToken
         /\ \E n \in 1..serial' : call'[p].retToken = AccessTokenOf(n)
         /\ call'[p].retToken # StoredAT

\* C33: every access token getAccessToken() returns comes from a credential
\* the freshness policy classified as fresh in that call, or from a
\* credential obtained by a refresh made within that call; the token of a
\* stale cached or stored credential is never returned.
C33_ReturnedTokenFreshOrRefreshed ==
  [][\A p \in Callers : C33_Step(p)]_vars

\* C33 witness: getAccessToken() found a stale credential in the cache,
\* refreshed, and returned the token of the new credential
C33_Witness ==
  \E p \in Callers :
    /\ call[p].op = "getAccessToken" /\ call[p].pc = "returned"
    /\ call[p].nRefresh = 1 /\ call[p].nLoad = 0
    /\ call[p].tokenData # Null
    /\ call[p].retToken = AccessTokenOf(serial)
    /\ call[p].retToken # call[p].tokenData.accessToken

\* how often the Connector call c has fired the 'refreshed' notification
RefreshedFired(c) ==
  Len(SelectSeq(c.fired, LAMBDA n : n = "onTokenRefreshed"))

\* the credential the manager holds has more than 25 minutes left
C34_FarFromExpiry ==
  /\ cachedTokenData # Null
  /\ cachedTokenData.expiresAt - now > 25 * 60 * MsPerSec

C34_Step ==
  /\ (connector.pc = "getTokenData" /\ connector'.pc # "getTokenData") =>
       IF "onTokenRefreshed" \in handlers /\ C34_FarFromExpiry
       THEN connector'.fired = Append(connector.fired, "onTokenRefreshed")
       ELSE connector'.fired = connector.fired
  /\ (connector'.op = "getAccessToken" /\ connector.pc # "getTokenData") =>
       RefreshedFired(connector') =
         IF connector.pc = "idle" THEN 0 ELSE RefreshedFired(connector)

IssuesRefresh(p) == call'[p].nRefresh = call[p].nRefresh + 1

\* once the server has rotated the refresh token, a call of
\* refreshAccessToken carries the refresh token of the latest response
C35_Step(p) ==
  (IssuesRefresh(p) /\ provider.rotates /\ serial >= 1) =>
    call'[p].refreshToken = RotatedRTOf(serial)

\* C35: every refreshAccessToken call a manager makes uses the refresh token
\* issued to it most recently: once a successful refresh has returned a
\* rotated refresh token, no later refresh is made with an older token or
\* with the static configured one, also after a failed operation has cleared
\* the cache and also without storage.
C35_LatestRefreshTokenUsed == [][\A p \in Procs : C35_Step(p)]_vars

\* a step of the tick p taken while no timer is held (the scheduler has been
\* stopped or destroyed): it calls neither refresh nor save, and neither the
\* cache nor storage changes
C36_Step(p) ==
  (/\ call[p].op = "tick"
   /\ call'[p] # call[p]
   /\ backgroundSyncInterval = Null) =>
    /\ ~IssuesRefresh(p)
    /\ call'[p].nSave = call[p].nSave \/ call'[p].pc = "idle"
    /\ UNCHANGED <<cachedTokenData, stored>>

\* C36: after destroy() or stopBackgroundSync() has returned, no refresh,
\* save or cache write initiated by the scheduler happens any more: a tick
\* that was in flight when destroy() was called does not repopulate the
\* cache or write storage, so the cache stays absent until the caller
\* invokes another operation.
C36_NoSchedulerWorkAfterStop == [][\A p \in TickSlots : C36_Step(p)]_vars

TokenOps == {"getAccessToken", "refreshToken", "tick"}

\* load, refresh and save are each called at most once in an operation, and
\* a save only after a refresh
C37_AtMostOnce ==
  \A p \in Procs :
    call[p].op \in TokenOps =>
      /\ call[p].nLoad <= 1 /\ call[p].nRefresh <= 1 /\ call[p].nSave <= 1
      /\ call[p].nSave <= call[p].nRefresh
      /\ call[p].nSave = 1 => storageStrategy

\* a step of the operation p: a load comes before any refresh or save, a
\* refresh before any save, and the cache entry is replaced in the step that
\* ends the operation, by the credential refreshed once it is saved; the
\* step after a save that failed leaves the cache entry absent
C37_Step(p) ==
  (call'[p].op \in TokenOps /\ call'[p] # call[p]) =>
    /\ call'[p].nLoad # call[p].nLoad =>
         call'[p].nRefresh = 0 /\ call'[p].nSave = 0
    /\ IssuesRefresh(p) => call'[p].nSave = 0
    /\ call'[p].nSave # call[p].nSave =>
         /\ call[p].pc = "refreshPending"
         /\ call'[p].pc = "savePending"
         /\ UNCHANGED cachedTokenData
    /\ (cachedTokenData' # cachedTokenData /\ cachedTokenData' # Null) =>
         /\ call'[p].pc = "returned"
         /\ IF call'[p].nRefresh = 0
            THEN cachedTokenData' = call'[p].tokenData
            ELSE /\ cachedTokenData' = call'[p].newTokenData
                 /\ storageStrategy =>
                      /\ call[p].pc = "saveReady"
                      /\ call[p].io.ok
                      /\ call'[p].nSave = 1
    /\ (call[p].pc = "saveReady" /\ ~call[p].io.ok) =>
         /\ cachedTokenData' = Null
         /\ call'[p].pc \in {"returned", "thrown"}
         /\ call'[p].error = "SaveFailed"

\* C37: within one getAccessToken(), refreshToken() or background tick the
\* steps run in the order load, refresh, save, cache replacement, each at
\* most once; with storage configured the cache is replaced by a refreshed
\* credential only after saveToken for that credential has succeeded, so a
\* credential whose save failed is never cached.
C37_LoadRefreshSaveCache ==
  /\ []C37_AtMostOnce
  /\ [][\A p \in Procs : C37_Step(p)]_vars

\* C37 witness: refreshToken() loaded, refreshed, and failed to save: the
\* credential it obtained is neither stored nor cached
C37_Witness ==
  \E p \in Callers :
    /\ call[p].op = "refreshToken" /\ call[p].pc = "thrown"
    /\ call[p].error = "SaveFailed"
    /\ call[p].nLoad = 1 /\ call[p].nRefresh = 1 /\ call[p].nSave = 1
    /\ cachedTokenData = Null
    /\ stored # call[p].newTokenData

\* an operation that did not refresh, or whose load or refresh failed, or that
\* found no refresh token, has not called saveToken
C38_NoSaveWithoutRefresh ==
  \A p \in Procs :
    call[p].op \in TokenOps =>
      /\ call[p].nRefresh = 0 => call[p].nSave = 0
      /\ call[p].error \in {"LoadFailed", "NoRefreshToken", "RefreshFailed"} =>
           call[p].nSave = 0 /\ Settled(p)

\* no step of an operation that has not called saveToken changes what is
\* persisted
C38_Step(p) ==
  (call'[p].op \in TokenOps /\ call'[p] # call[p] /\ call'[p].nSave = 0) =>
    UNCHANGED stored

\* C38: when the storage load fails, the refresh token is missing or
\* refreshAccessToken fails, the manager never calls saveToken in that
\* operation, so the persisted credential is what it was before the
\* operation began.
C38_FailureLeavesStorage ==
  /\ []C38_NoSaveWithoutRefresh
  /\ [][\A p \in Procs : C38_Step(p)]_vars

\* C38 witness: with storage configured, an operation loaded a credential,
\* its refresh failed, and storage still holds the credential it loaded
C38_Witness ==
  \E p \in Procs :
    /\ call[p].op \in TokenOps /\ Settled(p)
    /\ call[p].error = "RefreshFailed"
    /\ storageStrategy /\ call[p].nLoad = 1 /\ call[p].nSave = 0
    /\ call[p].tokenData # Null
    /\ stored = call[p].tokenData

C39_Step(p) ==
  /\ (TickBegins(p) /\ cachedTokenData = Null /\ ~storageStrategy) =>
       TickDoesNothing(p)
  /\ (TickLoaded(p) /\ call[p].io.value = Null) =>
       TickDoesNothing(p)

\* C39: a background tick that finds no credential in the cache and none in
\* storage (or has no storage) makes no refresh and changes nothing, even
\* when a static refresh token is configured; in particular, without
\* storage, once a failed tick has cleared the cache, later ticks do nothing
\* until a foreground call repopulates the cache.
C39_TickWithoutCredentialIdles == [][\A p \in TickSlots : C39_Step(p)]_vars

\* C39 witness: without storage and with a static refresh token, after the
\* scheduler had refreshed once and a later tick failed and cleared the
\* cache, a tick has found nothing and ended without a refresh
C39_Witness ==
  \E p \in TickSlots :
    /\ call[p].op = "tick" /\ call[p].pc = "returned"
    /\ call[p].error = "none"
    /\ ~storageStrategy /\ Truthy(cfgRefreshToken)
    /\ serial >= 1
    /\ call[p].tokenData = Null /\ call[p].nRefresh = 0
    /\ cachedTokenData = Null

====
